---- MODULE Spec2Model ----
(***************************************************************************)
(* Verification model of the industrial multi-protocol gateway.            *)
(*                                                                         *)
(* Part I   PLCConnection / SiemensPLC (siemens_plc/connection.py): the    *)
(*          threaded connection supervisor with heartbeat thread and       *)
(*          delayed reconnect threads.  Specification SpecConn.            *)
(* Part II  PLCToPLCCommunication / PLCNetwork                             *)
(*          (siemens_plc/communication/plc_plc.py): node registry, mapping *)
(*          table, per-node sync tasks, auto-recovery tasks, over the      *)
(*          asyncio protocol drivers (protocols/base.py, modbus.py, s7.py).*)
(*          Specifications SpecNet and, with task fairness, LiveNet.       *)
(* Part III one asyncio protocol driver (protocols/base.py).  SpecDrv.     *)
(* Part IV  sync_data_once over two Modbus drivers.  SpecSync.             *)
(* Part V   write_data of the S7 and Profibus drivers.  SpecWrite.         *)
(* Part VI  read_data / write_data of the Modbus driver.  SpecModbus.      *)
(* Part VII the session of the EtherNet/IP driver.  SpecEip.               *)
(* Part VIII VFDCommunication and its drive.  SpecVfd, SpecDecode.         *)
(* Part IX  PLCService (examples/plc_service.py).  SpecService.            *)
(* Part X   the address resolvers (areas.py, data_types.py).  SpecAddr.    *)
(* Part XI  the sync loop observed pass by pass.  SpecIter.                *)
(* Part XII read_data of the S7 driver.  SpecS7Read.                       *)
(* Part XIII request threads of src/api/plc_api.py in write_output.        *)
(*          SpecApi.                                                       *)
(***************************************************************************)
EXTENDS Integers, Sequences, FiniteSets, TLC

(***************************************************************************)
(* Bounds of the model (not program constants).                            *)
(***************************************************************************)
\* explicit connect()/disconnect() calls the callers make in one behaviour
MaxCalls == 3
\* length of the mapping table
MaxMappings == 2
\* auto-recovery tasks alive at the same time
MaxRecovery == 2
\* value the statistics counters of a driver can reach together
MaxOps == 2
\* calls of sync_data_once in one behaviour
MaxSyncs == 2
\* read_data calls on the S7 driver in one behaviour
MaxS7Reads == 2
\* largest request.count of a read_data call on the S7 driver
MaxCount == 4
\* read_data / write_data calls on the Modbus driver in one behaviour
MaxRequests == 2
\* calls to an Ethernet/IP driver
MaxEipCalls == 4
\* steps of a VFDCommunication and its drive
MaxVfdSteps == 4
\* steps of a PLCService
MaxSvcSteps == 3
\* calls of the address resolvers
MaxAddressCalls == 2

(***************************************************************************)
(* Program constants.                                                      *)
(***************************************************************************)
\* ConnectionConfig.retry_attempts (default)
retry_attempts == 3
\* ConnectionConfig.heartbeat_interval (default, ms)
heartbeat_interval == 5000
\* ProtocolConfig.retry_count (default)
retry_count == 3

\* caller threads of one SiemensPLC object
Users == {"u1", "u2"}

\* ConnectionState
DISCONNECTED == "disconnected"
CONNECTING   == "connecting"
CONNECTED    == "connected"
ERROR        == "error"
RECONNECTING == "reconnecting"
ConnectionState == {DISCONNECTED, CONNECTING, CONNECTED, ERROR, RECONNECTING}

\* tasks of the event loop that use one asyncio driver: the callers, and
\* the heartbeat tasks the driver creates
Callers == {"c1", "c2"}
HbTasks == {"h1", "h2"}
Tasks == Callers \cup HbTasks

\* node ids of the network configuration
Nodes == {"A", "B"}

\* PLCNode objects the callers register: A sources replication, B does not
NodeConfig ==
    [n \in Nodes |-> [id |-> n, is_master |-> (n = "A"), enabled |-> TRUE]]

\* register / tag addresses of a device and the values they hold
Addrs  == {1, 2}
Values == {0, 42}

\* DataMapping objects the callers register
Mapping(s, sa, t, ta, mode) ==
    [source_plc |-> s, source_address |-> sa,
     target_plc |-> t, target_address |-> ta,
     sync_mode |-> mode, enabled |-> TRUE]

M_cont == Mapping("A", 1, "B", 1, "continuous")
M_chg  == Mapping("A", 1, "B", 2, "on_change")
M_per  == Mapping("A", 1, "A", 2, "periodic")
Mappings == {M_cont, M_chg, M_per}

VARIABLES
    \* ---- PLCToPLCCommunication / PLCNetwork -----------------------------
    plcs,             \* keys of self.plcs (the PLCNode of id n is NodeConfig[n])
    data_mappings,    \* self.data_mappings
    sync_tasks,       \* self.sync_tasks: "none" = no entry, else the task's position
    sync_idx,         \* list index the for loop of a sync task examines next
    running,          \* self.running
    rec_created,      \* _auto_recovery_loop tasks created and not yet started
    rec_sleep,        \* _auto_recovery_loop tasks in asyncio.sleep
    \* ---- protocol driver of each node (BaseProtocol subclass) -----------
    is_connected,     \* protocol.status.is_connected (heartbeat task exists)
    link,             \* protocol._client exists and reports connected
    \* ---- devices ---------------------------------------------------------
    dev_up,           \* the device answers on the wire
    mem,              \* device memory: mem[n][a]
    \* ---- observation (history) ------------------------------------------
    stopped,          \* stop_network has stopped the running network and
                      \* returned, and start_network was not called since
    loaded            \* the running network was started with both nodes
                      \* registered and the continuous mapping in the table,
                      \* and no node or mapping was removed since

netvars == <<plcs, data_mappings, sync_tasks, sync_idx, running, rec_created,
             rec_sleep, is_connected, link, dev_up, mem, stopped, loaded>>

VARIABLES
    \* ---- PLCConnection fields -------------------------------------------
    state,            \* self.state
    reconnect_count,  \* self.reconnect_count
    client_connected, \* self.client.get_connected()
    stop_event,       \* self._stop_event.is_set()
    lock,             \* owner of self._lock: "free", a user thread, or "rc"
    auto_reconnect,   \* self.config.auto_reconnect (fixed at construction)
    \* ---- threads --------------------------------------------------------
    hb,               \* position of the heartbeat thread (self._heartbeat_thread)
    rc_sleep,         \* reconnect threads sleeping retry_delay in delayed_reconnect
    rc_attempt,       \* reconnect threads between the locked block of
                      \* _attempt_reconnect and their call of connect()
    upc,              \* position of each caller thread
    calls,            \* explicit connect()/disconnect() calls made so far
    \* ---- observation (history) ------------------------------------------
    hb_failed,        \* a heartbeat failed and no connect has succeeded since
    attempts,         \* reconnect attempts made since that heartbeat failure
    explicit_since    \* an explicit connect()/disconnect() was called since it

connvars == <<state, reconnect_count, client_connected, stop_event, lock,
              auto_reconnect, hb, rc_sleep, rc_attempt, upc, calls,
              hb_failed, attempts, explicit_since>>

VARIABLES
    \* ---- one asyncio protocol driver (BaseProtocol subclass) ------------
    gate_locked,      \* self._lock: asyncio.Lock._locked
    gate_waiters,     \* self._lock: asyncio.Lock._waiters, in order; each
                      \* waiter with the flag "its future is done"
    client_up,        \* self._client exists and reports connected
    status_connected, \* self.status.is_connected
    heartbeat_task,   \* self._heartbeat_task: "None", else the task's id
    success_count,    \* self.status.success_count
    error_count,      \* self.status.error_count
    drv_auto_reconnect, \* self.config.auto_reconnect (fixed at construction)
    \* ---- tasks of the event loop that use the driver --------------------
    pc,               \* position of each task
    op,               \* the driver method a task is inside
    attempt,          \* loop variable of _reconnect of a heartbeat task
    result,           \* what the last driver call of a caller returned
                      \* ("-" while a call is under way)
    \* ---- observation (history) ------------------------------------------
    requests          \* tasks that asked for the gate and did not yet pass
                      \* it, in the order of their requests

(***************************************************************************)
(* Part IV: one call of PLCToPLCCommunication.sync_data_once between two   *)
(* Modbus drivers, with the conversions of ModbusProtocol.                 *)
(***************************************************************************)
VARIABLES
    source_data_type, \* mapping.source_data_type
    target_data_type, \* mapping.target_data_type
    on_data_sync,     \* TRUE iff the on_data_sync callback is registered
    on_error,         \* TRUE iff the on_error callback is registered
    src_register,     \* the 16-bit register at mapping.source_address
    tgt_written,      \* what the target device holds at mapping.target_address
                      \* (a register, or a coil as 0 / 1), -1 before a write
    sy_pc,            \* "idle", "reading" (await read_data), "writing"
    source_data,      \* the list read_data returned
    caught,           \* the exception sync_data_once caught, or "none"
    sync_result,      \* what the last sync_data_once returned, "-" at first
    syncs,            \* number of calls of sync_data_once
    \* ---- observation (history) ------------------------------------------
    wire,             \* the write requests the target transport was given
    data_calls,       \* the calls of on_data_sync
    error_calls       \* the calls of on_error

syncvars == <<source_data_type, target_data_type, on_data_sync, on_error,
              src_register, tgt_written, sy_pc, source_data, caught,
              sync_result, syncs, wire, data_calls, error_calls>>

(***************************************************************************)
(* Part V: one write_data request to an S7Protocol or a ProfibusProtocol   *)
(* driver.                                                                 *)
(***************************************************************************)
VARIABLES
    wr_driver,        \* "s7" or "profibus": the driver that gets the request
    wr_data_type,     \* request.data_type
    wr_address,       \* request.address
    wr_value,         \* request.value
    wr_connected,     \* self._client and self._client.get_connected()
    wr_pc,            \* "ready" before write_data is called, "done" after
    wr_result,        \* "-", "True" (returned) or "raised"
    \* ---- observation (history) ------------------------------------------
    transport_writes  \* the write calls made on the snap7 client

wrvars == <<wr_driver, wr_data_type, wr_address, wr_value, wr_connected,
            wr_pc, wr_result, transport_writes>>

(***************************************************************************)
(* Part VI: read_data and write_data of a connected ModbusProtocol driver  *)
(* and the device behind it.                                               *)
(***************************************************************************)
VARIABLES
    holding,          \* the holding registers of the device
    coils,            \* the coils of the device
    mb_request,       \* the request of the last read_data / write_data call
    mb_frames,        \* the frames that call sent to the device
    mb_result,        \* what that call returned, or that it raised
    mb_requests       \* number of calls made

mbvars == <<holding, coils, mb_request, mb_frames, mb_result, mb_requests>>

(***************************************************************************)
(* Part VII: the session of an EthernetIPProtocol driver.                  *)
(***************************************************************************)
VARIABLES
    eip_client,       \* TRUE iff self._client is set
    eip_session,      \* self._session_id: <<>> for None, else <<handle>>
    eip_connected,    \* self.status.is_connected
    eip_heartbeat,    \* TRUE iff self._heartbeat_task is set
    \* ---- observation (history) ------------------------------------------
    eip_fresh,        \* TRUE iff the client of self._client has sent nothing
    eip_reply,        \* bytes 4..8 of the reply that registered the session
    eip_wire,         \* the frames sent, each with eip_fresh and eip_reply
    eip_calls         \* number of calls made

eipvars == <<eip_client, eip_session, eip_connected, eip_heartbeat,
             eip_fresh, eip_reply, eip_wire, eip_calls>>

(***************************************************************************)
(* Part VIII: a VFDCommunication and its drive.                            *)
(***************************************************************************)
VARIABLES
    vfd_monitoring,   \* self.running, with the monitoring task alive
    vfd_status,       \* parameters.status, the value of a VFDStatus
    vfd_running,      \* parameters.running
    vfd_fault_code,   \* parameters.fault_code
    vfd_setpoint,     \* parameters.frequency_setpoint, in Hz
    vfd_word,         \* the status register of the drive
    vfd_device_fault, \* the fault code register of the drive
    \* ---- observation (history) ------------------------------------------
    vfd_iteration,    \* the last pass of the monitoring loop: what it saw
    vfd_events,       \* the callbacks that pass called, in order
    vfd_call,         \* the last set_frequency call and what it wrote
    vfd_steps         \* number of steps taken

vfdvars == <<vfd_monitoring, vfd_status, vfd_running, vfd_fault_code,
             vfd_setpoint, vfd_word, vfd_device_fault, vfd_iteration,
             vfd_events, vfd_call, vfd_steps>>

(***************************************************************************)
(* Part IX: the PLCService of examples/plc_service.py and its PLC.         *)
(***************************************************************************)
VARIABLES
    svc_connected,    \* self.connected
    svc_pa,           \* the bytes of area PA of the PLC
    svc_outputs,      \* self.data["outputs"]
    svc_error_count,  \* self.data["status"]["error_count"]
    \* ---- observation (history) ------------------------------------------
    svc_call,         \* the last write_output call, with area PA before it
    svc_steps         \* number of steps taken

svcvars == <<svc_connected, svc_pa, svc_outputs, svc_error_count, svc_call,
             svc_steps>>

(***************************************************************************)
(* Part X: the address resolvers.                                          *)
(***************************************************************************)
VARIABLES
    addr_call,        \* the last call of a resolver and what came of it
    addr_calls        \* number of calls made

addrvars == <<addr_call, addr_calls>>

(***************************************************************************)
(* Part XI: the sync loop of one node observed over one pass of its for    *)
(* loop, next to callers that change the mapping table meanwhile.          *)
(***************************************************************************)
VARIABLES
    \* ---- observation (history) ------------------------------------------
    inserted,         \* the mappings of the table in the order in which
                      \* add_data_mapping was called for them
    iter_synced,      \* per node: the mappings its loop passed to
                      \* sync_data_once in the current pass, in that order
    iter_kept         \* per node: the mappings the table held exactly once
                      \* from the start of the current pass until now

itervars == <<inserted, iter_synced, iter_kept>>

(***************************************************************************)
(* Part XII: read_data requests to an S7Protocol driver.                   *)
(***************************************************************************)
VARIABLES
    \* ---- observation (history) ------------------------------------------
    s7_read,          \* the last read_data call and what came of it
    s7_reads          \* number of read_data calls made

s7rvars == <<s7_read, s7_reads>>

(***************************************************************************)
(* Part I, observation of disconnect().                                    *)
(***************************************************************************)
VARIABLES
    disc_returned     \* a disconnect() has returned and no caller has
                      \* called connect() since

closevars == <<disc_returned>>

(***************************************************************************)
(* Part XIII: request threads of src/api/plc_api.py inside                 *)
(* PLCService.write_output.                                                *)
(***************************************************************************)
VARIABLES
    wo_thread         \* per request thread: where it is in write_output
                      \* ("idle", "read" = between read_area and write_area,
                      \* "returned"), its arguments, the byte it read
                      \* (current_data[0]) and what the call returned

wovars == <<wo_thread>>

drvvars == <<gate_locked, gate_waiters, client_up, status_connected,
             heartbeat_task, success_count, error_count, drv_auto_reconnect,
             pc, op, attempt, result, requests>>

\* the variables an action of one part leaves alone
nonconnvars == <<netvars, drvvars, syncvars, wrvars, mbvars, eipvars, vfdvars, svcvars, addrvars, itervars, s7rvars, closevars, wovars>>
nonconnclosevars == <<netvars, drvvars, syncvars, wrvars, mbvars, eipvars, vfdvars, svcvars, addrvars, itervars, s7rvars, wovars>>
nonnetvars  == <<connvars, drvvars, syncvars, wrvars, mbvars, eipvars, vfdvars, svcvars, addrvars, itervars, s7rvars, closevars, wovars>>
nondrvvars  == <<connvars, netvars, syncvars, wrvars, mbvars, eipvars, vfdvars, svcvars, addrvars, itervars, s7rvars, closevars, wovars>>
nonsyncvars == <<connvars, netvars, drvvars, wrvars, mbvars, eipvars, vfdvars, svcvars, addrvars, itervars, s7rvars, closevars, wovars>>
nonwrvars   == <<connvars, netvars, drvvars, syncvars, mbvars, eipvars, vfdvars, svcvars, addrvars, itervars, s7rvars, closevars, wovars>>
nonmbvars == <<netvars, connvars, syncvars, wrvars, drvvars, eipvars, vfdvars, svcvars, addrvars, itervars, s7rvars, closevars, wovars>>
noneipvars == <<netvars, connvars, syncvars, wrvars, mbvars, drvvars, vfdvars, svcvars, addrvars, itervars, s7rvars, closevars, wovars>>
nonvfdvars == <<netvars, connvars, syncvars, wrvars, mbvars, eipvars, drvvars, svcvars, addrvars, itervars, s7rvars, closevars, wovars>>
nonsvcvars == <<netvars, connvars, syncvars, wrvars, mbvars, eipvars, vfdvars, drvvars, addrvars, itervars, s7rvars, closevars, wovars>>
nonsvcwovars == <<netvars, connvars, syncvars, wrvars, mbvars, eipvars, vfdvars, drvvars, addrvars, itervars, s7rvars, closevars>>
nonaddrvars == <<netvars, connvars, syncvars, wrvars, mbvars, eipvars, vfdvars, svcvars, drvvars, itervars, s7rvars, closevars, wovars>>
nonitervars == <<netvars, connvars, syncvars, wrvars, mbvars, eipvars, vfdvars, svcvars, addrvars, drvvars, s7rvars, closevars, wovars>>
nons7rvars == <<netvars, connvars, syncvars, wrvars, mbvars, eipvars, vfdvars, svcvars, addrvars, itervars, drvvars, closevars, wovars>>

vars == <<state, reconnect_count, client_connected, stop_event, lock,
          auto_reconnect, hb, rc_sleep, rc_attempt, upc, calls,
          hb_failed, attempts, explicit_since,
          plcs, data_mappings, sync_tasks, sync_idx, running, rec_created,
          rec_sleep, is_connected, link, dev_up, mem, stopped, loaded,
          gate_locked, gate_waiters, client_up, status_connected,
          heartbeat_task, success_count, error_count, drv_auto_reconnect,
          pc, op, attempt, result, requests,
          source_data_type, target_data_type, on_data_sync, on_error,
          src_register, tgt_written, sy_pc, source_data, caught,
          sync_result, syncs, wire, data_calls, error_calls,
          wr_driver, wr_data_type, wr_address, wr_value, wr_connected,
          wr_pc, wr_result, transport_writes,
          holding, coils, mb_request, mb_frames, mb_result, mb_requests,
          eip_client, eip_session, eip_connected, eip_heartbeat, eip_fresh,
          eip_reply, eip_wire, eip_calls,
          vfd_monitoring, vfd_status, vfd_running, vfd_fault_code,
          vfd_setpoint, vfd_word, vfd_device_fault, vfd_iteration,
          vfd_events, vfd_call, vfd_steps,
          svc_connected, svc_pa, svc_outputs, svc_error_count, svc_call,
          svc_steps,
          addr_call, addr_calls,
          inserted, iter_synced, iter_kept,
          s7_read, s7_reads,
          disc_returned,
          wo_thread>>

\* the register and coil addresses of the device
DeviceAddresses == 0..2

\* no read_data / write_data call has been made
NoRequest == [op |-> "none", data_type |-> "-", address |-> 0, count |-> 0,
              value |-> [kind |-> "int", n |-> 0]]

\* VFDConfig.max_frequency, VFDCommunication._get_register_map
max_frequency == 60
FrequencySetpointRegister == 8192

\* before the first pass of the monitoring loop / the first set_frequency
NoIteration == [ran |-> FALSE, read |-> FALSE, old_status |-> "unknown",
                word |-> 0, device_fault |-> 0]
NoCall == [op |-> "none", frequency |-> 0, before |-> 0, writes |-> <<>>,
           success |-> FALSE, returned |-> FALSE]

\* the bytes of area PA the PLC has, the value of a decimal digit and the
\* keys of data["outputs"] after construction
OutputBytes == {0, 1}
DigitValue == [c \in {"0", "1", "2", "3", "4", "5", "6", "7", "8", "9"} |->
                 CHOOSE n \in 0..9 :
                    <<"0", "1", "2", "3", "4", "5", "6", "7", "8", "9">>[n + 1] = c]
OutputKeys == {<<"A", "0", ".", d>> :
                  d \in {"0", "1", "2", "3", "4", "5", "6", "7"}}

\* before the first write_output
NoWriteOutput == [op |-> "none", output |-> <<>>, value |-> FALSE,
                  connected |-> FALSE, transport |-> "ok", before |-> [b \in OutputBytes |-> 0],
                  returned |-> FALSE]

\* no read_data call on the S7 driver was made yet
NoS7Read ==
    [fn |-> "none", data_type |-> "-", count |-> 0, connected |-> FALSE,
     length_bytes |-> 0, raised |-> FALSE, values |-> <<>>]

\* HTTP request threads of the API that share the PLCService
RequestThreads == {"r1", "r2"}

\* a request thread that has not called write_output
NoOutputRequest ==
    [pc |-> "idle", output |-> <<>>, value |-> FALSE, current |-> 0,
     returned |-> FALSE]

\* before the first call of a resolver
NoAddressCall == [fn |-> "none", address |-> <<>>, accepted |-> FALSE,
                  type |-> "-", bit |-> 0, size |-> 0]

(***************************************************************************)
(* The state after construction: PLCConnection.__init__ (a fresh           *)
(* connection, auto_reconnect as configured), PLCToPLCCommunication        *)
(* .__init__ and PLCNetwork.__init__ (no node, no mapping, not running),   *)
(* drivers not yet connected, devices up with cleared memory.  autos is    *)
(* the set of auto_reconnect settings the connection is configured with.   *)
(***************************************************************************)
InitWith(autos) ==
    /\ state = DISCONNECTED
    /\ reconnect_count = 0
    /\ client_connected = FALSE
    /\ stop_event = FALSE
    /\ lock = "free"
    /\ auto_reconnect \in autos
    /\ hb = "dead"
    /\ rc_sleep = 0
    /\ rc_attempt = 0
    /\ upc = [u \in Users |-> "idle"]
    /\ calls = 0
    /\ hb_failed = FALSE
    /\ attempts = 0
    /\ explicit_since = FALSE
    /\ plcs = {}
    /\ data_mappings = <<>>
    /\ sync_tasks = [n \in Nodes |-> "none"]
    /\ sync_idx = [n \in Nodes |-> 1]
    /\ running = FALSE
    /\ rec_created = 0
    /\ rec_sleep = 0
    /\ is_connected = [n \in Nodes |-> FALSE]
    /\ link = [n \in Nodes |-> FALSE]
    /\ dev_up = [n \in Nodes |-> TRUE]
    /\ mem = [n \in Nodes |-> [a \in Addrs |-> 0]]
    /\ stopped = FALSE
    /\ loaded = FALSE
    /\ gate_locked = FALSE
    /\ gate_waiters = <<>>
    /\ client_up = FALSE
    /\ status_connected = FALSE
    /\ heartbeat_task = "None"
    /\ success_count = 0
    /\ error_count = 0
    /\ pc = [t \in Tasks |-> IF t \in Callers THEN "idle" ELSE "none"]
    /\ op = [t \in Tasks |-> "-"]
    /\ attempt = [t \in HbTasks |-> 0]
    /\ result = [t \in Callers |-> "-"]
    /\ requests = <<>>
    /\ tgt_written = -1
    /\ sy_pc = "idle"
    /\ source_data = <<>>
    /\ caught = "none"
    /\ sync_result = "-"
    /\ syncs = 0
    /\ wire = <<>>
    /\ data_calls = <<>>
    /\ error_calls = <<>>
    /\ wr_pc = "ready"
    /\ wr_result = "-"
    /\ transport_writes = <<>>
    /\ holding = [a \in DeviceAddresses |-> 0]
    /\ coils = [a \in DeviceAddresses |-> FALSE]
    /\ mb_request = NoRequest
    /\ mb_frames = <<>>
    /\ mb_result = [raised |-> FALSE, data |-> <<>>]
    /\ mb_requests = 0
    /\ eip_client = FALSE
    /\ eip_session = <<>>
    /\ eip_connected = FALSE
    /\ eip_heartbeat = FALSE
    /\ eip_fresh = FALSE
    /\ eip_reply = <<>>
    /\ eip_wire = <<>>
    /\ eip_calls = 0
    /\ vfd_monitoring = FALSE
    /\ vfd_status = "unknown"
    /\ vfd_running = FALSE
    /\ vfd_fault_code = 0
    /\ vfd_setpoint = 0
    /\ vfd_device_fault = 0
    /\ vfd_iteration = NoIteration
    /\ vfd_events = <<>>
    /\ vfd_call = NoCall
    /\ vfd_steps = 0
    /\ svc_connected = FALSE
    /\ svc_pa = [b \in OutputBytes |-> 0]
    /\ svc_outputs = [k \in OutputKeys |-> FALSE]
    /\ svc_error_count = 0
    /\ svc_call = NoWriteOutput
    /\ svc_steps = 0
    /\ addr_call = NoAddressCall
    /\ addr_calls = 0
    /\ inserted = <<>>
    /\ iter_synced = [n \in Nodes |-> <<>>]
    /\ iter_kept = [n \in Nodes |-> {}]
    /\ s7_read = NoS7Read
    /\ s7_reads = 0
    /\ disc_returned = FALSE
    /\ wo_thread = [t \in RequestThreads |-> NoOutputRequest]

\* the data types a mapping may name for its source and for its target
SourceTypes == {"uint16", "int16", "uint32", "holding_register"}
TargetTypes == {"uint16", "int16", "coil"}

\* contents of the source register the model looks at
Registers == {0, 1, 40000, 65535}

\* the mapping, the callbacks (PLCNetwork.__init__ registers both) and the
\* source register where sync_data_once is not looked at
SyncUnused ==
    /\ source_data_type = "uint16"
    /\ target_data_type = "uint16"
    /\ on_data_sync = TRUE
    /\ on_error = TRUE
    /\ src_register = 0

\* request.data_type: the names of _get_area_from_data_type and two of
\* the data types of _convert_data_to_bytes
WriteDataTypes == {"input", "output", "mark", "data_block", "counter", "timer",
                   "uint16", "uint8"}

\* request.address and request.value
WriteAddresses == {0, 1, 2}
WriteValues == {0, 1, 300}

\* the write request where write_data of S7 / Profibus is not looked at
WriteUnused ==
    /\ wr_driver = "s7"
    /\ wr_data_type = "data_block"
    /\ wr_address = 0
    /\ wr_value = 0
    /\ wr_connected = FALSE

\* the status word of the drive where the VFD is not looked at
VfdUnused == vfd_word = 0

ConnInit ==
    /\ InitWith(BOOLEAN) /\ drv_auto_reconnect = TRUE
    /\ SyncUnused /\ WriteUnused /\ VfdUnused

\* the network specifications leave the PLCConnection at its default
\* configuration (ConnectionConfig.auto_reconnect = True)
NetInit ==
    /\ InitWith({TRUE}) /\ drv_auto_reconnect = TRUE
    /\ SyncUnused /\ WriteUnused /\ VfdUnused

\* one asyncio driver as constructed (BaseProtocol.__init__), with either
\* setting of ProtocolConfig.auto_reconnect
DrvInit ==
    /\ InitWith({TRUE})
    /\ VfdUnused
    /\ drv_auto_reconnect \in BOOLEAN
    /\ SyncUnused
    /\ WriteUnused

\* a mapping between any two data types, any register content, callbacks
\* registered or not
SyncInit ==
    /\ InitWith({TRUE})
    /\ VfdUnused
    /\ drv_auto_reconnect = TRUE
    /\ source_data_type \in SourceTypes
    /\ target_data_type \in TargetTypes
    /\ on_data_sync \in BOOLEAN
    /\ on_error \in BOOLEAN
    /\ src_register \in Registers
    /\ WriteUnused

\* any write request to either driver, connected or not
WriteInit ==
    /\ InitWith({TRUE})
    /\ VfdUnused
    /\ drv_auto_reconnect = TRUE
    /\ SyncUnused
    /\ wr_driver \in {"s7", "profibus"}
    /\ wr_data_type \in WriteDataTypes
    /\ wr_address \in WriteAddresses
    /\ wr_value \in WriteValues
    /\ wr_connected \in BOOLEAN

(***************************************************************************)
(* PLCConnection._schedule_reconnect: number of sleeping reconnect threads *)
(* after the call, given the reconnect_count it reads (without the lock).  *)
(***************************************************************************)
ScheduleReconnect(count, sleeping) ==
    IF count >= retry_attempts THEN sleeping ELSE sleeping + 1

(***************************************************************************)
(* PLCConnection._start_heartbeat: <<heartbeat thread position,            *)
(* stop_event>> after the call.  A thread that is still alive is kept and  *)
(* the stop event is then not cleared.                                     *)
(***************************************************************************)
StartHeartbeat(h, ev) ==
    IF h # "dead" THEN <<h, ev>> ELSE <<"top", FALSE>>

(***************************************************************************)
(* PLCConnection.connect, first part: take the lock; return at once when   *)
(* already CONNECTED, else enter CONNECTING and call client.connect().     *)
(***************************************************************************)
ConnectEnter(t) ==
    /\ lock = "free"
    /\ IF state = CONNECTED
       THEN UNCHANGED <<state, lock>>
       ELSE /\ state' = CONNECTING
            /\ lock' = t

\* explicit connect() of a caller thread
Connect(u) ==
    /\ upc[u] = "idle"
    /\ calls < MaxCalls
    /\ ConnectEnter(u)
    /\ upc' = [upc EXCEPT ![u] = IF state = CONNECTED THEN "idle" ELSE "connect"]
    /\ calls' = calls + 1
    /\ explicit_since' = TRUE
    /\ disc_returned' = FALSE
    /\ UNCHANGED <<reconnect_count, client_connected, stop_event, auto_reconnect,
                   hb, rc_sleep, rc_attempt, hb_failed, attempts>>
    /\ UNCHANGED nonconnclosevars

(***************************************************************************)
(* PLCConnection.connect, second part (lines 87-127): client.connect()     *)
(* returned; ok says whether client.get_connected() is true afterwards.    *)
(***************************************************************************)
ConnectFinish(t, ok) ==
    /\ lock = t
    /\ lock' = "free"
    /\ IF ok
       THEN /\ state' = CONNECTED
            /\ client_connected' = TRUE
            /\ reconnect_count' = 0
            /\ hb' = IF heartbeat_interval > 0
                     THEN StartHeartbeat(hb, stop_event)[1] ELSE hb
            /\ stop_event' = IF heartbeat_interval > 0
                             THEN StartHeartbeat(hb, stop_event)[2]
                             ELSE stop_event
            /\ hb_failed' = FALSE
            /\ attempts' = 0
            /\ explicit_since' = FALSE
            /\ UNCHANGED rc_sleep
       ELSE /\ state' = ERROR
            /\ rc_sleep' = IF auto_reconnect
                           THEN ScheduleReconnect(reconnect_count, rc_sleep)
                           ELSE rc_sleep
            /\ UNCHANGED <<client_connected, reconnect_count, hb, stop_event,
                           hb_failed, attempts, explicit_since>>

ConnectReturn(u) ==
    /\ upc[u] = "connect"
    /\ \E ok \in BOOLEAN : ConnectFinish(u, ok)
    /\ upc' = [upc EXCEPT ![u] = "idle"]
    /\ UNCHANGED <<auto_reconnect, rc_attempt, calls>>
    /\ UNCHANGED nonconnvars

(***************************************************************************)
(* PLCConnection.disconnect (with _stop_heartbeat: the join has a timeout, *)
(* so the heartbeat thread may outlive the call).                          *)
(***************************************************************************)
Disconnect(u) ==
    /\ upc[u] = "idle"
    /\ calls < MaxCalls
    /\ lock = "free"
    /\ calls' = calls + 1
    /\ explicit_since' = TRUE
    /\ IF state = DISCONNECTED
       THEN UNCHANGED <<state, stop_event, client_connected>>
       ELSE /\ stop_event' = TRUE
            /\ state' = DISCONNECTED
            /\ client_connected' = FALSE
    /\ disc_returned' = TRUE
    /\ UNCHANGED <<reconnect_count, lock, auto_reconnect, hb, rc_sleep,
                   rc_attempt, upc, hb_failed, attempts>>
    /\ UNCHANGED nonconnclosevars

(***************************************************************************)
(* PLCConnection._heartbeat_loop                                           *)
(***************************************************************************)
\* loop test and is_connected() (which takes the lock)
HeartbeatTop ==
    /\ hb = "top"
    /\ lock = "free"
    /\ hb' = IF stop_event THEN "dead"
             ELSE IF state = CONNECTED /\ client_connected THEN "read"
             ELSE "sleep"
    /\ UNCHANGED <<state, reconnect_count, client_connected, stop_event, lock,
                   auto_reconnect, rc_sleep, rc_attempt, upc, calls,
                   hb_failed, attempts, explicit_since>>
    /\ UNCHANGED nonconnvars

\* client.read_area(Area.SYS, 0, 0, 1) returned
HeartbeatReadOk ==
    /\ hb = "read"
    /\ hb' = "sleep"
    /\ UNCHANGED <<state, reconnect_count, client_connected, stop_event, lock,
                   auto_reconnect, rc_sleep, rc_attempt, upc, calls,
                   hb_failed, attempts, explicit_since>>
    /\ UNCHANGED nonconnvars

\* client.read_area raised; the transport may have dropped the connection
HeartbeatReadFail ==
    /\ hb = "read"
    /\ hb' = "fail"
    /\ \E drop \in BOOLEAN :
          client_connected' = (client_connected /\ ~drop)
    /\ UNCHANGED <<state, reconnect_count, stop_event, lock,
                   auto_reconnect, rc_sleep, rc_attempt, upc, calls,
                   hb_failed, attempts, explicit_since>>
    /\ UNCHANGED nonconnvars

\* time.sleep(heartbeat_interval) is over
HeartbeatWake ==
    /\ hb = "sleep"
    /\ hb' = "top"
    /\ UNCHANGED <<state, reconnect_count, client_connected, stop_event, lock,
                   auto_reconnect, rc_sleep, rc_attempt, upc, calls,
                   hb_failed, attempts, explicit_since>>
    /\ UNCHANGED nonconnvars

\* HeartbeatFail with the auto_reconnect test of line 227 left out
HeartbeatFail_AlwaysSchedule ==
    /\ hb = "fail"
    /\ lock = "free"
    /\ state' = ERROR
    /\ hb' = "sched"
    /\ hb_failed' = TRUE
    /\ attempts' = 0
    /\ explicit_since' = FALSE
    /\ UNCHANGED <<reconnect_count, client_connected, stop_event, lock,
                   auto_reconnect, rc_sleep, rc_attempt, upc, calls>>
    /\ UNCHANGED nonconnvars

\* except branch, lines 224-227: with self._lock: self.state = ERROR, and
\* the test of config.auto_reconnect
HeartbeatFail ==
    /\ hb = "fail"
    /\ lock = "free"
    /\ state' = ERROR
    /\ hb' = IF auto_reconnect THEN "sched" ELSE "dead"
    /\ hb_failed' = TRUE
    /\ attempts' = 0
    /\ explicit_since' = FALSE
    /\ UNCHANGED <<reconnect_count, client_connected, stop_event, lock,
                   auto_reconnect, rc_sleep, rc_attempt, upc, calls>>
    /\ UNCHANGED nonconnvars

\* except branch, lines 227-230: _schedule_reconnect() and break
HeartbeatSchedule ==
    /\ hb = "sched"
    /\ rc_sleep' = ScheduleReconnect(reconnect_count, rc_sleep)
    /\ hb' = "dead"
    /\ UNCHANGED <<state, reconnect_count, client_connected, stop_event, lock,
                   auto_reconnect, rc_attempt, upc, calls,
                   hb_failed, attempts, explicit_since>>
    /\ UNCHANGED nonconnvars

(***************************************************************************)
(* delayed_reconnect / PLCConnection._attempt_reconnect                    *)
(***************************************************************************)
\* the sleep is over; the locked block of _attempt_reconnect
AttemptReconnect ==
    /\ rc_sleep > 0
    /\ lock = "free"
    /\ rc_sleep' = rc_sleep - 1
    /\ IF state = CONNECTED
       THEN UNCHANGED <<state, reconnect_count, rc_attempt, attempts>>
       ELSE /\ state' = RECONNECTING
            /\ reconnect_count' = reconnect_count + 1
            /\ rc_attempt' = rc_attempt + 1
            /\ attempts' = IF hb_failed THEN attempts + 1 ELSE attempts
    /\ UNCHANGED <<client_connected, stop_event, lock, auto_reconnect, hb,
                   upc, calls, hb_failed, explicit_since>>
    /\ UNCHANGED nonconnvars

\* the reconnect thread calls self.connect()
ReconnectConnect ==
    /\ rc_attempt > 0
    /\ lock # "rc"
    /\ ConnectEnter("rc")
    /\ rc_attempt' = rc_attempt - 1
    /\ UNCHANGED <<reconnect_count, client_connected, stop_event, auto_reconnect,
                   hb, rc_sleep, upc, calls, hb_failed, attempts, explicit_since>>
    /\ UNCHANGED nonconnvars

ReconnectReturn ==
    /\ \E ok \in BOOLEAN : ConnectFinish("rc", ok)
    /\ UNCHANGED <<auto_reconnect, rc_attempt, upc, calls>>
    /\ UNCHANGED nonconnvars

(***************************************************************************)
(* SiemensPLC.read_area / write_area: is_connected() under the lock, then  *)
(* the transport call on self.connection.client without the lock.          *)
(***************************************************************************)
AreaEnter(u) ==
    /\ upc[u] = "idle"
    /\ lock = "free"
    /\ state = CONNECTED /\ client_connected
    /\ upc' = [upc EXCEPT ![u] = "area"]
    /\ UNCHANGED <<state, reconnect_count, client_connected, stop_event, lock,
                   auto_reconnect, hb, rc_sleep, rc_attempt, calls,
                   hb_failed, attempts, explicit_since>>
    /\ UNCHANGED nonconnvars

AreaReturn(u) ==
    /\ upc[u] = "area"
    /\ upc' = [upc EXCEPT ![u] = "idle"]
    /\ \E drop \in BOOLEAN :
          client_connected' = (client_connected /\ ~drop)
    /\ UNCHANGED <<state, reconnect_count, stop_event, lock,
                   auto_reconnect, hb, rc_sleep, rc_attempt, calls,
                   hb_failed, attempts, explicit_since>>
    /\ UNCHANGED nonconnvars

ConnNext ==
    \/ \E u \in Users : Connect(u)
    \/ \E u \in Users : ConnectReturn(u)
    \/ \E u \in Users : Disconnect(u)
    \/ HeartbeatTop
    \/ HeartbeatReadOk
    \/ HeartbeatReadFail
    \/ HeartbeatWake
    \/ HeartbeatFail
    \/ HeartbeatSchedule
    \/ AttemptReconnect
    \/ ReconnectConnect
    \/ ReconnectReturn
    \/ \E u \in Users : AreaEnter(u)
    \/ \E u \in Users : AreaReturn(u)

\* one PLCConnection with its threads; no network is configured
SpecConn == ConnInit /\ [][ConnNext]_vars

ConnTypeOK ==
    /\ state \in ConnectionState
    /\ reconnect_count \in Nat
    /\ lock \in {"free", "rc"} \cup Users
    /\ hb \in {"dead", "top", "read", "sleep", "fail", "sched"}

(***************************************************************************)
(* Part II.  Protocol drivers as the network sees them.                    *)
(***************************************************************************)
\* a transport request of node n's driver is answered (read_data / write_data
\* do not raise): the client is connected and the device is up
TransportOk(n) == link[n] /\ dev_up[n]

(***************************************************************************)
(* ModbusProtocol.connect / S7Protocol.connect: <<is_connected, link>> of  *)
(* the driver after the call.  An already connected client returns at once;*)
(* a failed connect leaves status.is_connected as it was.                  *)
(***************************************************************************)
DriverConnect(conn, lnk, up) ==
    IF lnk THEN <<conn, lnk>>
    ELSE IF up THEN <<TRUE, TRUE>>
    ELSE <<conn, FALSE>>

(***************************************************************************)
(* PLCToPLCCommunication._start_sync_for_plc: the sync_tasks entry of a    *)
(* node after the call (an existing entry, even of a finished task, is     *)
(* kept).                                                                  *)
(***************************************************************************)
StartSyncForPlc(entry) ==
    IF entry # "none" THEN entry ELSE "created"

\* mapping m is in the table
InTable(m) == \E i \in 1..Len(data_mappings) : data_mappings[i] = m

(***************************************************************************)
(* PLCToPLCCommunication.add_plc                                           *)
(***************************************************************************)
AddPlc(n) ==
    /\ n \notin plcs
    /\ LET r == DriverConnect(is_connected[n], link[n], dev_up[n])
       IN  /\ is_connected' = [is_connected EXCEPT ![n] = r[1]]
           /\ link' = [link EXCEPT ![n] = r[2]]
           /\ IF r[2]
              THEN /\ plcs' = plcs \cup {n}
                   /\ sync_tasks' =
                        IF NodeConfig[n].is_master
                        THEN [sync_tasks EXCEPT ![n] = StartSyncForPlc(@)]
                        ELSE sync_tasks
              ELSE UNCHANGED <<plcs, sync_tasks>>
    /\ UNCHANGED <<data_mappings, sync_idx, running, rec_created, rec_sleep,
                   dev_up, mem, stopped, loaded>>
    /\ UNCHANGED nonnetvars

(***************************************************************************)
(* PLCToPLCCommunication.remove_plc (with _stop_sync_for_plc and the       *)
(* driver's disconnect)                                                    *)
(***************************************************************************)
RemovePlc(n) ==
    /\ n \in plcs
    /\ sync_tasks' = [sync_tasks EXCEPT ![n] = "none"]
    /\ is_connected' = [is_connected EXCEPT ![n] = FALSE]
    /\ link' = [link EXCEPT ![n] = FALSE]
    /\ plcs' = plcs \ {n}
    /\ loaded' = FALSE
    /\ UNCHANGED <<data_mappings, sync_idx, running, rec_created, rec_sleep,
                   dev_up, mem, stopped>>
    /\ UNCHANGED nonnetvars

(***************************************************************************)
(* PLCToPLCCommunication.add_data_mapping: the table after the call        *)
(***************************************************************************)
\* an insertion at the head of the list
AddDataMappingTable_AtHead(tbl, registered, m) ==
    IF m.source_plc \in registered /\ m.target_plc \in registered
    THEN <<m>> \o tbl
    ELSE tbl

AddDataMappingTable(tbl, registered, m) ==
    IF m.source_plc \in registered /\ m.target_plc \in registered
    THEN Append(tbl, m)
    ELSE tbl

AddDataMapping(m) ==
    /\ Len(data_mappings) < MaxMappings
    /\ data_mappings' = AddDataMappingTable(data_mappings, plcs, m)
    /\ UNCHANGED <<plcs, sync_tasks, sync_idx, running, rec_created, rec_sleep,
                   is_connected, link, dev_up, mem, stopped, loaded>>
    /\ UNCHANGED nonnetvars

(***************************************************************************)
(* PLCToPLCCommunication.remove_data_mapping: the table after the call;    *)
(* the first mapping with the given source and target node is deleted.     *)
(***************************************************************************)
FirstMatch(tbl, s, t) ==
    LET hits == {i \in 1..Len(tbl) :
                    tbl[i].source_plc = s /\ tbl[i].target_plc = t}
    IN  IF hits = {} THEN 0
        ELSE CHOOSE i \in hits : \A j \in hits : i <= j

DeleteAt(tbl, i) ==
    [k \in 1..(Len(tbl) - 1) |-> IF k < i THEN tbl[k] ELSE tbl[k + 1]]

RemoveDataMappingTable(tbl, s, t) ==
    IF FirstMatch(tbl, s, t) = 0 THEN tbl
    ELSE DeleteAt(tbl, FirstMatch(tbl, s, t))

RemoveDataMapping(s, t) ==
    /\ data_mappings' = RemoveDataMappingTable(data_mappings, s, t)
    /\ loaded' = (loaded /\ data_mappings' = data_mappings)
    /\ UNCHANGED <<plcs, sync_tasks, sync_idx, running, rec_created, rec_sleep,
                   is_connected, link, dev_up, mem, stopped>>
    /\ UNCHANGED nonnetvars

(***************************************************************************)
(* PLCToPLCCommunication.sync_data_once: device memory after one sync of   *)
(* mapping m.  A failed read, an unregistered target node (KeyError) or a  *)
(* failed write is caught and leaves the memory as it is.                  *)
(***************************************************************************)
SyncWrites(m) ==
    /\ m.source_plc \in plcs
    /\ TransportOk(m.source_plc)
    /\ m.target_plc \in plcs
    /\ TransportOk(m.target_plc)

SyncDataOnce(m) ==
    IF SyncWrites(m)
    THEN [mem EXCEPT ![m.target_plc][m.target_address] =
                         mem[m.source_plc][m.source_address]]
    ELSE mem

(***************************************************************************)
(* sync_loop of _start_sync_for_plc                                        *)
(***************************************************************************)
\* the test of lines 278-280
SyncSelects(m, n) ==
    m.source_plc = n /\ m.enabled /\ m.sync_mode = "continuous"

\* index of the first mapping at or after index i that the loop of node n
\* synchronizes, Len + 1 when the for loop runs off the end of the list
NextSelected(tbl, i, n) ==
    LET hits == {j \in i..Len(tbl) : SyncSelects(tbl[j], n)}
    IN  IF hits = {} THEN Len(tbl) + 1
        ELSE CHOOSE j \in hits : \A k \in hits : j <= k

\* the for loop from list index i up to and including its next
\* sync_data_once, or up to asyncio.sleep when nothing is left to synchronize
SyncIterate(n, i) ==
    LET j == NextSelected(data_mappings, i, n)
    IN  IF j <= Len(data_mappings)
        THEN /\ mem' = SyncDataOnce(data_mappings[j])
             /\ sync_tasks' = [sync_tasks EXCEPT ![n] = "iter"]
             /\ sync_idx' = [sync_idx EXCEPT ![n] = j + 1]
        ELSE /\ sync_tasks' = [sync_tasks EXCEPT ![n] = "sleep"]
             /\ sync_idx' = [sync_idx EXCEPT ![n] = 1]
             /\ UNCHANGED mem

\* the while test of line 274, then the for loop
SyncLoopTop(n) ==
    IF running /\ n \in plcs
    THEN SyncIterate(n, 1)
    ELSE /\ sync_tasks' = [sync_tasks EXCEPT ![n] = "done"]
         /\ UNCHANGED <<sync_idx, mem>>

\* the event loop runs a created sync task for the first time
SyncStart(n) ==
    /\ sync_tasks[n] = "created"
    /\ SyncLoopTop(n)
    /\ UNCHANGED <<plcs, data_mappings, running, rec_created, rec_sleep,
                   is_connected, link, dev_up, stopped, loaded>>
    /\ UNCHANGED nonnetvars

\* the task resumes inside the for loop after a sync_data_once
SyncResume(n) ==
    /\ sync_tasks[n] = "iter"
    /\ SyncIterate(n, sync_idx[n])
    /\ UNCHANGED <<plcs, data_mappings, running, rec_created, rec_sleep,
                   is_connected, link, dev_up, stopped, loaded>>
    /\ UNCHANGED nonnetvars

\* asyncio.sleep(plc.sync_interval / 1000) is over
SyncWake(n) ==
    /\ sync_tasks[n] = "sleep"
    /\ SyncLoopTop(n)
    /\ UNCHANGED <<plcs, data_mappings, running, rec_created, rec_sleep,
                   is_connected, link, dev_up, stopped, loaded>>
    /\ UNCHANGED nonnetvars

(***************************************************************************)
(* PLCNetwork.start_network with PLCToPLCCommunication.start_communication *)
(***************************************************************************)
StartCommunication ==
    IF running
    THEN UNCHANGED <<running, sync_tasks>>
    ELSE /\ running' = TRUE
         /\ sync_tasks' =
              [n \in Nodes |->
                 IF n \in plcs /\ NodeConfig[n].is_master /\ NodeConfig[n].enabled
                 THEN StartSyncForPlc(sync_tasks[n])
                 ELSE sync_tasks[n]]

StartNetwork ==
    /\ rec_created + rec_sleep < MaxRecovery
    /\ StartCommunication
    /\ rec_created' = rec_created + 1
    /\ stopped' = FALSE
    /\ loaded' = IF running THEN loaded
                 ELSE plcs = Nodes /\ InTable(M_cont)
    /\ UNCHANGED <<plcs, data_mappings, sync_idx, rec_sleep, is_connected,
                   link, dev_up, mem>>
    /\ UNCHANGED nonnetvars

(***************************************************************************)
(* PLCNetwork.stop_network with PLCToPLCCommunication.stop_communication   *)
(***************************************************************************)
StopCommunication ==
    IF ~running
    THEN UNCHANGED <<running, sync_tasks>>
    ELSE /\ running' = FALSE
         /\ sync_tasks' = [n \in Nodes |-> "none"]

StopNetwork ==
    /\ StopCommunication
    /\ stopped' = (running \/ stopped)
    /\ loaded' = FALSE
    /\ UNCHANGED <<plcs, data_mappings, sync_idx, rec_created, rec_sleep,
                   is_connected, link, dev_up, mem>>
    /\ UNCHANGED nonnetvars

(***************************************************************************)
(* PLCNetwork._auto_recovery_loop                                          *)
(***************************************************************************)
\* the event loop runs a created recovery task: while test, then sleep
RecoveryStart ==
    /\ rec_created > 0
    /\ rec_created' = rec_created - 1
    /\ rec_sleep' = IF running THEN rec_sleep + 1 ELSE rec_sleep
    /\ UNCHANGED <<plcs, data_mappings, sync_tasks, sync_idx, running,
                   is_connected, link, dev_up, mem, stopped, loaded>>
    /\ UNCHANGED nonnetvars

\* the node is one the recovery loop calls connect() on (line 457)
RecoveryConnects(n) ==
    n \in plcs /\ ~is_connected[n] /\ NodeConfig[n].enabled

\* the sleep is over: reconnect pass over self.communication.plcs, then the
\* while test
RecoveryWake ==
    /\ rec_sleep > 0
    /\ is_connected' =
         [n \in Nodes |->
            IF RecoveryConnects(n)
            THEN DriverConnect(is_connected[n], link[n], dev_up[n])[1]
            ELSE is_connected[n]]
    /\ link' =
         [n \in Nodes |->
            IF RecoveryConnects(n)
            THEN DriverConnect(is_connected[n], link[n], dev_up[n])[2]
            ELSE link[n]]
    /\ rec_sleep' = IF running THEN rec_sleep ELSE rec_sleep - 1
    /\ UNCHANGED <<plcs, data_mappings, sync_tasks, sync_idx, running,
                   rec_created, dev_up, mem, stopped, loaded>>
    /\ UNCHANGED nonnetvars

(***************************************************************************)
(* BaseProtocol heartbeat_loop with _reconnect, per connected driver: a    *)
(* failed ping is followed by disconnect() and connect() up to retry_count *)
(* times.  Taken as one step with the device state of that moment: the     *)
(* driver ends connected when the device is up, and disconnected with its  *)
(* heartbeat loop ended when it is down.                                   *)
(***************************************************************************)
HeartbeatReconnect(n) ==
    /\ is_connected[n]
    /\ ~TransportOk(n)
    /\ is_connected' = [is_connected EXCEPT ![n] = dev_up[n]]
    /\ link' = [link EXCEPT ![n] = dev_up[n]]
    /\ UNCHANGED <<plcs, data_mappings, sync_tasks, sync_idx, running,
                   rec_created, rec_sleep, dev_up, mem, stopped, loaded>>
    /\ UNCHANGED nonnetvars

(***************************************************************************)
(* The devices.                                                            *)
(***************************************************************************)
\* the PLC program or an operator changes the value at an address of node A
DeviceWrite(a, v) ==
    /\ mem["A"][a] # v
    /\ mem' = [mem EXCEPT !["A"][a] = v]
    /\ UNCHANGED <<plcs, data_mappings, sync_tasks, sync_idx, running,
                   rec_created, rec_sleep, is_connected, link, dev_up, stopped, loaded>>
    /\ UNCHANGED nonnetvars

\* the device stops answering; the client's connection breaks
DeviceDown(n) ==
    /\ dev_up[n]
    /\ dev_up' = [dev_up EXCEPT ![n] = FALSE]
    /\ link' = [link EXCEPT ![n] = FALSE]
    /\ UNCHANGED <<plcs, data_mappings, sync_tasks, sync_idx, running,
                   rec_created, rec_sleep, is_connected, mem, stopped, loaded>>
    /\ UNCHANGED nonnetvars

DeviceUp(n) ==
    /\ ~dev_up[n]
    /\ dev_up' = [dev_up EXCEPT ![n] = TRUE]
    /\ UNCHANGED <<plcs, data_mappings, sync_tasks, sync_idx, running,
                   rec_created, rec_sleep, is_connected, link, mem, stopped, loaded>>
    /\ UNCHANGED nonnetvars

\* calls of the API of the replication engine and of the network
NetCalls ==
    \/ \E n \in Nodes : AddPlc(n)
    \/ \E n \in Nodes : RemovePlc(n)
    \/ \E m \in Mappings : AddDataMapping(m)
    \/ \E s \in Nodes, t \in Nodes : RemoveDataMapping(s, t)
    \/ StartNetwork
    \/ StopNetwork

\* steps of the background tasks
NetTasks ==
    \/ \E n \in Nodes : SyncStart(n)
    \/ \E n \in Nodes : SyncResume(n)
    \/ \E n \in Nodes : SyncWake(n)
    \/ RecoveryStart
    \/ RecoveryWake

NetNext ==
    \/ NetCalls
    \/ NetTasks
    \/ \E n \in Nodes : HeartbeatReconnect(n)
    \/ DeviceWrite(1, 42) \/ DeviceWrite(1, 0)
    \/ \E n \in Nodes : DeviceDown(n)
    \/ \E n \in Nodes : DeviceUp(n)

\* the network with failing devices
SpecNet == NetInit /\ [][NetNext]_vars

\* the network with devices that never fail, and the event loop running
\* every task that is ready
LiveNext ==
    \/ NetCalls
    \/ NetTasks
    \/ DeviceWrite(1, 42) \/ DeviceWrite(1, 0)

LiveNet ==
    /\ NetInit
    /\ [][LiveNext]_vars
    /\ \A n \in Nodes : WF_vars(SyncStart(n))
    /\ \A n \in Nodes : WF_vars(SyncResume(n))
    /\ \A n \in Nodes : WF_vars(SyncWake(n))
    /\ WF_vars(RecoveryStart)
    /\ WF_vars(RecoveryWake)

NetTypeOK ==
    /\ plcs \subseteq Nodes
    /\ Len(data_mappings) <= MaxMappings
    /\ \A n \in Nodes : sync_tasks[n] \in {"none", "created", "iter", "sleep", "done"}
    /\ \A n \in Nodes : link[n] => is_connected[n]

(***************************************************************************)
(* Part III.  One asyncio protocol driver (BaseProtocol with the gate,     *)
(* statistics and heartbeat of protocols/base.py, and connect, disconnect, *)
(* read_data, write_data as ModbusProtocol and the other drivers implement *)
(* them) used by several tasks of one event loop.  A task moves from one   *)
(* suspension point to the next in one step.                               *)
(***************************************************************************)
\* an acquire that looked at the lock only and overtook the waiters
GateFree_Barging == ~gate_locked

\* asyncio.Lock.acquire returns without waiting: the lock is free and
\* nobody waits for it
GateFree == ~gate_locked /\ gate_waiters = <<>>

\* asyncio.Lock._wake_up_first: the first waiter's future is set done
WakeUpFirst(w) ==
    IF w = <<>> THEN w ELSE [w EXCEPT ![1].done = TRUE]

\* a sequence without the entries of task t
Without(sq, t) == SelectSeq(sq, LAMBDA x : x # t)
WaitersWithout(w, t) == SelectSeq(w, LAMBDA x : x.task # t)

\* `async with self._lock` is entered by task t for method o: the task
\* takes the free gate, or joins the waiters
GateAcquire(t, o) ==
    /\ op' = [op EXCEPT ![t] = o]
    /\ IF GateFree
       THEN /\ gate_locked' = TRUE
            /\ pc' = [pc EXCEPT ![t] = "cs"]
            /\ UNCHANGED <<gate_waiters, requests>>
       ELSE /\ gate_waiters' = Append(gate_waiters, [task |-> t, done |-> FALSE])
            /\ requests' = Append(requests, t)
            /\ pc' = [pc EXCEPT ![t] = "wait"]
            /\ UNCHANGED gate_locked

\* a waiter whose future is done resumes in acquire() and takes the gate
GateResume(t) ==
    /\ pc[t] = "wait"
    /\ \E i \in 1..Len(gate_waiters) :
          gate_waiters[i].task = t /\ gate_waiters[i].done
    /\ gate_waiters' = WaitersWithout(gate_waiters, t)
    /\ requests' = Without(requests, t)
    /\ gate_locked' = TRUE
    /\ pc' = [pc EXCEPT ![t] = "cs"]
    /\ UNCHANGED <<client_up, status_connected, heartbeat_task, success_count,
                   error_count, drv_auto_reconnect, op, attempt, result>>
    /\ UNCHANGED nondrvvars

\* read, write and ping requests that have not updated the statistics yet
InFlight == Cardinality({t \in Tasks : op[t] \in {"read", "write", "ping"}})

\* a caller task calls read_data or write_data
CallTransfer(t, o) ==
    /\ t \in Callers
    /\ pc[t] = "idle"
    /\ success_count + error_count + InFlight < MaxOps
    /\ GateAcquire(t, o)
    /\ result' = [result EXCEPT ![t] = "-"]
    /\ UNCHANGED <<client_up, status_connected, heartbeat_task, success_count,
                   error_count, drv_auto_reconnect, attempt>>
    /\ UNCHANGED nondrvvars

\* a caller task calls connect() or disconnect()
CallSession(t, o) ==
    /\ t \in Callers
    /\ pc[t] = "idle"
    /\ GateAcquire(t, o)
    /\ result' = [result EXCEPT ![t] = "-"]
    /\ UNCHANGED <<client_up, status_connected, heartbeat_task, success_count,
                   error_count, drv_auto_reconnect, attempt>>
    /\ UNCHANGED nondrvvars

\* BaseProtocol.reset_statistics
ResetStatistics ==
    /\ success_count + error_count > 0
    /\ success_count' = 0
    /\ error_count' = 0
    /\ UNCHANGED <<gate_locked, gate_waiters, client_up, status_connected,
                   heartbeat_task, drv_auto_reconnect, pc, op, attempt, result,
                   requests>>
    /\ UNCHANGED nondrvvars

\* position of a task that has finished: a heartbeat task ends (and stays
\* referenced by self._heartbeat_task, if it is), a caller is idle again
Finished(t) ==
    IF t \in Callers THEN "idle"
    ELSE IF heartbeat_task = t THEN "done" ELSE "none"

\* the test `while self.status.is_connected` of heartbeat_loop, given the
\* value of status.is_connected it reads
HbLoopTest(t, conn) == IF conn THEN "sleep" ELSE Finished(t)

\* the gate is released at the end of `async with self._lock`
GateRelease ==
    /\ gate_locked' = FALSE
    /\ gate_waiters' = WakeUpFirst(gate_waiters)
    /\ UNCHANGED requests

\* statistics that count a failed request on both counters
UpdateStatistics_CountsBoth(success) ==
    /\ success_count' = success_count + 1
    /\ error_count' = IF success THEN error_count ELSE error_count + 1

\* BaseProtocol._update_statistics: one counter goes up by one
UpdateStatistics(success) ==
    /\ success_count' = IF success THEN success_count + 1 ELSE success_count
    /\ error_count' = IF success THEN error_count ELSE error_count + 1

(***************************************************************************)
(* read_data / write_data (and ping, which is a read_data) inside the      *)
(* gate: the transport request and _update_statistics.  Without a client   *)
(* the request raises at once; a failing transport may drop the client.    *)
(***************************************************************************)
Transport(t) ==
    /\ pc[t] = "cs"
    /\ op[t] \in {"read", "write", "ping"}
    /\ \E ok \in BOOLEAN, drop \in BOOLEAN :
          /\ ok => client_up
          /\ (drop => ~ok)
          /\ UpdateStatistics(ok)
          /\ client_up' = (client_up /\ ~drop)
          /\ result' = IF t \in Callers
                        THEN [result EXCEPT ![t] = IF ok THEN "ok" ELSE "raised"]
                        ELSE result
          /\ IF t \in Callers \/ ok
             THEN /\ pc' = [pc EXCEPT ![t] =
                               IF t \in Callers THEN "idle"
                               ELSE HbLoopTest(t, status_connected)]
                  /\ UNCHANGED attempt
             ELSE \* heartbeat_loop: the ping failed, _reconnect() begins
                  /\ pc' = [pc EXCEPT ![t] = "rsleep"]
                  /\ attempt' = [attempt EXCEPT ![t] = 0]
    /\ op' = [op EXCEPT ![t] = "-"]
    /\ GateRelease
    /\ UNCHANGED <<status_connected, heartbeat_task, drv_auto_reconnect>>
    /\ UNCHANGED nondrvvars

\* a heartbeat task id that is not in use
FreeHb(h) == h \in HbTasks /\ pc[h] = "none"

\* positions after self._heartbeat_task stops referring to a finished task
Forget(p) == [t \in Tasks |-> IF p[t] = "done" THEN "none" ELSE p[t]]

\* a connect() that never takes the short cut
AlreadyConnected_Never == FALSE

\* the test `self._client and self._client.connected` of connect()
AlreadyConnected == client_up

(***************************************************************************)
(* connect() inside the gate.  An already connected client returns True at *)
(* once; otherwise a new client is made and connected, and on success      *)
(* status.is_connected is set and _start_heartbeat creates the heartbeat   *)
(* task (only with auto_reconnect).  The caller returns; a heartbeat task  *)
(* inside _reconnect goes on with its loop.                                *)
(***************************************************************************)
ConnectBody(t) ==
    /\ pc[t] = "cs"
    /\ op[t] = "connect"
    /\ \E ok \in BOOLEAN :
          /\ AlreadyConnected => ok
          /\ (ok /\ ~AlreadyConnected /\ drv_auto_reconnect)
                => \E k \in HbTasks : FreeHb(k)
          /\ LET starts == ok /\ ~AlreadyConnected /\ drv_auto_reconnect
                 h      == CHOOSE k \in HbTasks : FreeHb(k)
                 conn   == IF ok /\ ~AlreadyConnected
                           THEN TRUE ELSE status_connected
                 ref    == IF starts THEN h ELSE heartbeat_task
                 again  == ~ok /\ t \in HbTasks /\ attempt[t] + 1 < retry_count
                 p1     == IF starts
                           THEN [Forget(pc) EXCEPT ![h] = "created"]
                           ELSE pc
                 after  == IF t \in Callers THEN "idle"
                           ELSE IF again THEN "rsleep"
                           ELSE IF conn THEN "sleep"
                           ELSE IF ref = t THEN "done" ELSE "none"
             IN  /\ client_up' = IF AlreadyConnected THEN client_up ELSE ok
                 /\ status_connected' = conn
                 /\ heartbeat_task' = ref
                 /\ pc' = [p1 EXCEPT ![t] = after]
                 /\ result' = IF t \in Callers
                               THEN [result EXCEPT ![t] = IF ok THEN "True" ELSE "False"]
                               ELSE result
                 /\ attempt' = IF t \in HbTasks
                               THEN [attempt EXCEPT ![t] =
                                        IF again THEN attempt[t] + 1 ELSE 0]
                               ELSE attempt
    /\ op' = [op EXCEPT ![t] = "-"]
    /\ GateRelease
    /\ UNCHANGED <<success_count, error_count, drv_auto_reconnect>>
    /\ UNCHANGED nondrvvars

(***************************************************************************)
(* disconnect() inside the gate, after _stop_heartbeat: the client is      *)
(* closed, status.is_connected cleared, the gate released.  The caller     *)
(* returns; a heartbeat task inside _reconnect calls connect() at once and *)
(* so asks for the gate again.                                             *)
(***************************************************************************)
DisconnectEnd(t, p) ==
    /\ heartbeat_task' = "None"
    /\ client_up' = FALSE
    /\ status_connected' = FALSE
    /\ IF t \in Callers
       THEN /\ pc' = [Forget(p) EXCEPT ![t] = "idle"]
            /\ op' = [op EXCEPT ![t] = "-"]
            /\ result' = [result EXCEPT ![t] = "True"]
            /\ gate_locked' = FALSE
            /\ gate_waiters' = WakeUpFirst(gate_waiters)
            /\ UNCHANGED requests
       ELSE /\ op' = [op EXCEPT ![t] = "connect"]
            /\ UNCHANGED result
            /\ IF gate_waiters = <<>>
               THEN /\ pc' = [Forget(p) EXCEPT ![t] = "cs"]
                    /\ gate_locked' = TRUE
                    /\ UNCHANGED <<gate_waiters, requests>>
               ELSE /\ pc' = [Forget(p) EXCEPT ![t] = "wait"]
                    /\ gate_locked' = FALSE
                    /\ gate_waiters' = Append(WakeUpFirst(gate_waiters),
                                              [task |-> t, done |-> FALSE])
                    /\ requests' = Append(requests, t)

\* disconnect() inside the gate: _stop_heartbeat cancels the task that
\* self._heartbeat_task refers to and awaits it.  Without such a task the
\* call runs through; otherwise it is suspended until the cancelled task
\* has ended.  A heartbeat task that cancels itself (disconnect() called
\* from its own _reconnect) catches the CancelledError and goes on.
DisconnectBody(t) ==
    /\ pc[t] = "cs"
    /\ op[t] = "disconnect"
    /\ IF heartbeat_task = "None" \/ pc[heartbeat_task] = "done"
       THEN /\ DisconnectEnd(t, pc)
            /\ UNCHANGED attempt
       ELSE IF heartbeat_task = t
       THEN /\ pc' = [pc EXCEPT ![t] = "cs2"]
            /\ UNCHANGED <<gate_locked, gate_waiters, client_up,
                           status_connected, heartbeat_task, op, attempt,
                           result, requests>>
       ELSE /\ pc' = [pc EXCEPT ![t] = "cs2", ![heartbeat_task] = "done"]
            /\ op' = [op EXCEPT ![heartbeat_task] = "-"]
            /\ attempt' = [attempt EXCEPT ![heartbeat_task] = 0]
            /\ gate_waiters' = WaitersWithout(gate_waiters, heartbeat_task)
            /\ requests' = Without(requests, heartbeat_task)
            /\ UNCHANGED <<gate_locked, client_up, status_connected,
                           heartbeat_task, result>>
    /\ UNCHANGED <<success_count, error_count, drv_auto_reconnect>>
    /\ UNCHANGED nondrvvars

\* the await of the cancelled heartbeat task returns
DisconnectFinish(t) ==
    /\ pc[t] = "cs2"
    /\ DisconnectEnd(t, pc)
    /\ UNCHANGED <<success_count, error_count, drv_auto_reconnect, attempt>>
    /\ UNCHANGED nondrvvars

(***************************************************************************)
(* heartbeat_loop of BaseProtocol._start_heartbeat, with _reconnect        *)
(***************************************************************************)
\* the event loop runs a created heartbeat task: the while test
HbStart(h) ==
    /\ h \in HbTasks
    /\ pc[h] = "created"
    /\ pc' = [pc EXCEPT ![h] = HbLoopTest(h, status_connected)]
    /\ UNCHANGED <<gate_locked, gate_waiters, client_up, status_connected,
                   heartbeat_task, success_count, error_count,
                   drv_auto_reconnect, op, attempt, result, requests>>
    /\ UNCHANGED nondrvvars

\* asyncio.sleep(heartbeat_interval) is over: ping(), a read_data
HbWake(h) ==
    /\ h \in HbTasks
    /\ pc[h] = "sleep"
    /\ success_count + error_count + InFlight < MaxOps
    /\ GateAcquire(h, "ping")
    /\ UNCHANGED <<client_up, status_connected, heartbeat_task, success_count,
                   error_count, drv_auto_reconnect, attempt, result>>
    /\ UNCHANGED nondrvvars

\* _reconnect: asyncio.sleep(retry_delay) is over, disconnect() is called
HbRetryWake(h) ==
    /\ h \in HbTasks
    /\ pc[h] = "rsleep"
    /\ GateAcquire(h, "disconnect")
    /\ UNCHANGED <<client_up, status_connected, heartbeat_task, success_count,
                   error_count, drv_auto_reconnect, attempt, result>>
    /\ UNCHANGED nondrvvars

DrvNext ==
    \/ \E t \in Callers, o \in {"read", "write"} : CallTransfer(t, o)
    \/ \E t \in Callers, o \in {"connect", "disconnect"} : CallSession(t, o)
    \/ ResetStatistics
    \/ \E t \in Tasks : GateResume(t)
    \/ \E t \in Tasks : Transport(t)
    \/ \E t \in Tasks : ConnectBody(t)
    \/ \E t \in Tasks : DisconnectBody(t)
    \/ \E t \in Tasks : DisconnectFinish(t)
    \/ \E h \in HbTasks : HbStart(h)
    \/ \E h \in HbTasks : HbWake(h)
    \/ \E h \in HbTasks : HbRetryWake(h)

\* one asyncio driver with its callers and heartbeat tasks
SpecDrv == DrvInit /\ [][DrvNext]_vars

DrvTypeOK ==
    /\ success_count \in 0..MaxOps
    /\ error_count \in 0..MaxOps
    /\ heartbeat_task \in {"None"} \cup HbTasks
    /\ \A t \in Tasks :
          pc[t] \in {"idle", "none", "created", "sleep", "rsleep", "wait",
                     "cs", "cs2", "done"}
    /\ Cardinality({t \in Tasks : pc[t] \in {"cs", "cs2"}}) <= 1

(***************************************************************************)
(* Part IV.  PLCToPLCCommunication.sync_data_once over two Modbus drivers. *)
(***************************************************************************)
\* struct.unpack('>h', struct.pack('>H', reg)): a register as signed 16 bit
ToInt16(reg) == IF reg >= 32768 THEN reg - 65536 ELSE reg

\* an integer of more than 16 bits, hi * 65536 + lo with lo in 0..65535:
\* (r0 << 16) | r1 of two registers is Wide(r0, r1)
Wide(hi, lo) == [hi |-> hi, lo |-> lo]

\* struct.unpack('>i', struct.pack('>I', value)): 32 bits as signed
ToInt32(value) == Wide(ToInt16(value.hi), value.lo)

\* ModbusProtocol._convert_registers_to_data
ConvertRegistersToData(registers, data_type) ==
    IF data_type = "uint16" THEN registers
    ELSE IF data_type = "int16"
    THEN [i \in 1..Len(registers) |-> ToInt16(registers[i])]
    ELSE IF data_type \in {"uint32", "float32"}
    THEN \* pairs of registers; one register gives no value (a float32 is
         \* given by its IEEE 754 bit pattern)
         [i \in 1..(Len(registers) \div 2) |->
             Wide(registers[2 * i - 1], registers[2 * i])]
    ELSE IF data_type = "int32"
    THEN [i \in 1..(Len(registers) \div 2) |->
             ToInt32(Wide(registers[2 * i - 1], registers[2 * i]))]
    ELSE registers

\* struct.pack('>h', int(value)) raises struct.error outside this range
PackableInt16(value) == value \in -32768..32767

\* ModbusProtocol._convert_single_value_to_register; raised says that the
\* conversion raised struct.error
ConvertSingleValueToRegister(value, data_type) ==
    IF data_type = "int16" /\ ~PackableInt16(value)
    THEN [raised |-> TRUE, register |-> 0]
    ELSE [raised |-> FALSE, register |-> value % 65536]

\* what write_data hands to the transport for a single value: write_coil
\* gets bool(value), write_register the converted register
WireValue(value, data_type) ==
    IF data_type = "coil"
    THEN [raised |-> FALSE, register |-> IF value # 0 THEN 1 ELSE 0]
    ELSE ConvertSingleValueToRegister(value, data_type)

\* the value range of a data type
Fits(value, data_type) ==
    IF data_type = "coil" THEN value \in {0, 1}
    ELSE IF data_type = "int16" THEN value \in -32768..32767
    ELSE value \in 0..65535

\* the value a device content stands for under a data type
DecodeAs(content, data_type) ==
    IF data_type = "int16" THEN ToInt16(content) ELSE content

\* the mapping object handed to the callbacks
TheMapping == [source_data_type |-> source_data_type,
               target_data_type |-> target_data_type]

\* an except branch that does not tell on_error
ReportError_Silent(e) ==
    /\ caught' = e
    /\ error_calls' = error_calls
    /\ sync_result' = "False"

\* the except branch of sync_data_once: on_error(mapping, e) if a callback
\* is registered, then return False
ReportError(e) ==
    /\ caught' = e
    /\ error_calls' = IF on_error
                      THEN Append(error_calls, [mapping |-> TheMapping, error |-> e])
                      ELSE error_calls
    /\ sync_result' = "False"

\* `if success and self.on_data_sync: await self.on_data_sync(...)`
NotifyDataSync(success, value) ==
    data_calls' = IF success /\ on_data_sync
                  THEN Append(data_calls, [mapping |-> TheMapping, value |-> value])
                  ELSE data_calls

\* sync_data_once is called and awaits read_data of the source
SyncCall ==
    /\ sy_pc = "idle"
    /\ syncs < MaxSyncs
    /\ syncs' = syncs + 1
    /\ sy_pc' = "reading"
    /\ caught' = "none"
    /\ sync_result' = "-"
    /\ source_data' = <<>>
    /\ UNCHANGED <<source_data_type, target_data_type, on_data_sync, on_error,
                   src_register, tgt_written, wire, data_calls, error_calls>>
    /\ UNCHANGED nonsyncvars

\* read_data of the source raises (not connected, or the device answers
\* with an error): the except branch
SyncReadRaises ==
    /\ sy_pc = "reading"
    /\ ReportError("read error")
    /\ sy_pc' = "idle"
    /\ UNCHANGED <<source_data_type, target_data_type, on_data_sync, on_error,
                   src_register, tgt_written, source_data, syncs, wire,
                   data_calls>>
    /\ UNCHANGED nonsyncvars

\* read_data of the source returns: with no value sync_data_once returns
\* False, otherwise it awaits write_data of the target
SyncReadReturns ==
    /\ sy_pc = "reading"
    /\ LET data == ConvertRegistersToData(<<src_register>>, source_data_type)
       IN  /\ source_data' = data
           /\ IF data = <<>>
              THEN /\ sync_result' = "False"
                   /\ sy_pc' = "idle"
              ELSE /\ sy_pc' = "writing"
                   /\ UNCHANGED sync_result
    /\ UNCHANGED <<source_data_type, target_data_type, on_data_sync, on_error,
                   src_register, tgt_written, caught, syncs, wire, data_calls,
                   error_calls>>
    /\ UNCHANGED nonsyncvars

\* write_data of the target: the conversion may raise and the transport may
\* fail (fails), which both end in the except branch; otherwise the target
\* holds the converted value and write_data returns True, the callback is
\* told and sync_data_once returns True
SyncWrite(fails) ==
    /\ sy_pc = "writing"
    /\ LET value == source_data[1]
           w     == WireValue(value, target_data_type)
       IN  IF w.raised
           THEN /\ ReportError("struct.error")
                /\ UNCHANGED <<wire, tgt_written, data_calls>>
           ELSE /\ wire' = Append(wire, [value |-> value,
                                         register |-> w.register,
                                         ok |-> ~fails])
                /\ IF fails
                   THEN /\ ReportError("write error")
                        /\ UNCHANGED <<tgt_written, data_calls>>
                   ELSE /\ tgt_written' = w.register
                        /\ NotifyDataSync(TRUE, value)
                        /\ sync_result' = "True"
                        /\ UNCHANGED <<caught, error_calls>>
    /\ sy_pc' = "idle"
    /\ UNCHANGED <<source_data_type, target_data_type, on_data_sync, on_error,
                   src_register, source_data, syncs>>
    /\ UNCHANGED nonsyncvars

\* the source register changes between two calls
SourceChanges ==
    /\ sy_pc = "idle"
    /\ syncs > 0
    /\ \E r \in Registers : r # src_register /\ src_register' = r
    /\ UNCHANGED <<source_data_type, target_data_type, on_data_sync, on_error,
                   tgt_written, sy_pc, source_data, caught, sync_result, syncs,
                   wire, data_calls, error_calls>>
    /\ UNCHANGED nonsyncvars

SyncNext ==
    \/ SyncCall
    \/ SyncReadRaises
    \/ SyncReadReturns
    \/ \E fails \in BOOLEAN : SyncWrite(fails)
    \/ SourceChanges

\* one mapping synchronised by repeated calls of sync_data_once
SpecSync == SyncInit /\ [][SyncNext]_vars

(***************************************************************************)
(* Part V.  write_data of S7Protocol and ProfibusProtocol.                 *)
(***************************************************************************)
\* _get_area_from_data_type (the same table in both drivers)
GetAreaFromDataType(data_type) ==
    IF data_type = "input" THEN "PE"
    ELSE IF data_type = "output" THEN "PA"
    ELSE IF data_type = "mark" THEN "MK"
    ELSE IF data_type = "counter" THEN "CT"
    ELSE IF data_type = "timer" THEN "TM"
    ELSE "DB"

\* Areas.AREA_INFO[...].read_only of areas.py
ReadOnlyArea(area) == area \in {"PE", "SYS", "SYS_INFO", "SYS_FLAGS"}

\* S7Protocol._convert_data_to_bytes for one value, as the set of possible
\* outcomes: a data type without a branch gives no byte and does not raise;
\* the snap7 setters are given an empty bytearray and either fill it or
\* raise
S7ConvertDataToBytes(value, data_type) ==
    IF data_type = "uint16"
    THEN {[raised |-> TRUE, length |-> 0], [raised |-> FALSE, length |-> 2]}
    ELSE IF data_type = "uint8"
    THEN {[raised |-> TRUE, length |-> 0], [raised |-> FALSE, length |-> 1]}
    ELSE {[raised |-> FALSE, length |-> 0]}

\* ProfibusProtocol._convert_data_to_bytes for one value: struct.pack and
\* bytes() raise for a value outside the range, `& 0xFF` does not
ProfibusConvertDataToBytes(value, data_type) ==
    IF data_type = "uint16"
    THEN [raised |-> value \notin 0..65535, length |-> 2]
    ELSE IF data_type = "uint8"
    THEN [raised |-> FALSE, length |-> 1]
    ELSE [raised |-> value \notin 0..255, length |-> 1]

\* the end of write_data: True after a transport call that returned 0,
\* otherwise the exception is raised again
WriteEnds(ok) ==
    /\ wr_pc' = "done"
    /\ wr_result' = IF ok THEN "True" ELSE "raised"
    /\ UNCHANGED <<wr_driver, wr_data_type, wr_address, wr_value, wr_connected>>
    /\ UNCHANGED nonwrvars

\* S7Protocol.write_data; rc is what client.write_area returns
S7WriteData(rc) ==
    /\ wr_pc = "ready"
    /\ wr_driver = "s7"
    /\ \E data \in S7ConvertDataToBytes(wr_value, wr_data_type) :
          IF ~wr_connected \/ data.raised
          THEN /\ UNCHANGED transport_writes
               /\ WriteEnds(FALSE)
          ELSE /\ transport_writes' =
                     Append(transport_writes,
                            [call |-> "write_area",
                             area |-> GetAreaFromDataType(wr_data_type),
                             db_number |-> 0, start |-> wr_address,
                             length |-> data.length])
               /\ WriteEnds(rc = 0)

\* ProfibusProtocol.write_data; rc is what client.db_write returns
ProfibusWriteData(rc) ==
    /\ wr_pc = "ready"
    /\ wr_driver = "profibus"
    /\ LET data == ProfibusConvertDataToBytes(wr_value, wr_data_type)
       IN  IF ~wr_connected \/ data.raised
           THEN /\ UNCHANGED transport_writes
                /\ WriteEnds(FALSE)
           ELSE /\ transport_writes' =
                      Append(transport_writes,
                             [call |-> "db_write", area |-> "DB",
                              db_number |-> wr_address, start |-> 0,
                              length |-> data.length])
                /\ WriteEnds(rc = 0)

WriteNext ==
    \/ \E rc \in {0, 1} : S7WriteData(rc)
    \/ \E rc \in {0, 1} : ProfibusWriteData(rc)

\* one write request to an S7 or a Profibus driver
SpecWrite == WriteInit /\ [][WriteNext]_vars

(***************************************************************************)
(* Part VI.  ModbusProtocol.read_data / write_data on a connected driver.  *)
(* A Python value is a record: an int n, a float given by the bit pattern  *)
(* of its float32 form, or a list of wide ints.                            *)
(***************************************************************************)
PyInt(n) == [kind |-> "int", n |-> n]
PyFloat(bits) == [kind |-> "float", n |-> bits]
PyList(items) == [kind |-> "list", n |-> items]

\* the float32 bit patterns of 0.0, 1.0, 1.5 and 2.0
F32_0 == 0
F32_1 == 1065353216
F32_1_5 == 1069547520
F32_2 == 1073741824

\* int(value): a float is truncated
IntOf(value) ==
    IF value.kind = "int" THEN value.n
    ELSE IF value.n = F32_0 THEN 0
    ELSE IF value.n \in {F32_1, F32_1_5} THEN 1
    ELSE 2

\* struct.pack('>f', float(value)) as 32 bits (for the values above)
Float32Bits(value) ==
    IF value.kind = "float" THEN value.n
    ELSE IF value.n = 0 THEN F32_0
    ELSE IF value.n = 1 THEN F32_1
    ELSE F32_2

\* bool(value)
BoolOf(value) == IF value.kind = "int" THEN value.n # 0 ELSE value.n # F32_0

\* a small integer as a wide one
WideOf(n) == Wide(n \div 65536, n % 65536)

\* the low 32 bits of a wide integer as two registers, low word first
Words32_LowFirst(w) == <<w.lo, w.hi % 65536>>

\* (v >> 16) & 0xFFFF and v & 0xFFFF, or the two halves of the four bytes
\* struct.pack makes: the high word first
Words32(w) == <<w.hi % 65536, w.lo>>

\* struct.pack('>h', v) and struct.pack('>i', v) raise struct.error
\* outside these ranges
WidePackableInt16(w) ==
    (w.hi = 0 /\ w.lo <= 32767) \/ (w.hi = -1 /\ w.lo >= 32768)
PackableInt32(w) == w.hi \in -32768..32767

\* the registers _convert_data_to_registers makes of one value (a wide
\* integer; under float32 one of the integers 0, 1, 2, whose float32 form
\* Float32Bits knows)
ValueToRegisters(w, data_type) ==
    IF data_type = "uint16" THEN [raised |-> FALSE, registers |-> <<w.lo>>]
    ELSE IF data_type = "int16"
    THEN IF WidePackableInt16(w)
         THEN [raised |-> FALSE, registers |-> <<w.lo>>]
         ELSE [raised |-> TRUE, registers |-> <<>>]
    ELSE IF data_type = "uint32"
    THEN [raised |-> FALSE, registers |-> Words32(w)]
    ELSE IF data_type = "int32"
    THEN IF PackableInt32(w)
         THEN [raised |-> FALSE, registers |-> Words32(w)]
         ELSE [raised |-> TRUE, registers |-> <<>>]
    ELSE IF data_type = "float32"
    THEN [raised |-> FALSE,
          registers |-> Words32(WideOf(Float32Bits(PyInt(w.lo))))]
    ELSE [raised |-> FALSE, registers |-> <<w.lo>>]

\* ModbusProtocol._convert_data_to_registers
RECURSIVE ConvertDataToRegisters(_, _)
ConvertDataToRegisters(values, data_type) ==
    IF values = <<>> THEN [raised |-> FALSE, registers |-> <<>>]
    ELSE LET first == ValueToRegisters(Head(values), data_type)
             rest  == ConvertDataToRegisters(Tail(values), data_type)
         IN  IF first.raised \/ rest.raised
             THEN [raised |-> TRUE, registers |-> <<>>]
             ELSE [raised |-> FALSE,
                   registers |-> first.registers \o rest.registers]

\* the content of the device's input registers and discrete inputs
InputRegister(a) == 100 + a
DiscreteInput(a) == (a = 1)

\* the call ends: the request, the frames it sent and its outcome
ModbusCallEnds(request, frames, outcome) ==
    /\ mb_request' = request
    /\ mb_frames' = frames
    /\ mb_result' = outcome
    /\ mb_requests' = mb_requests + 1
    /\ UNCHANGED nonmbvars

\* a frame of a write function: the device stores the values, or answers
\* with an exception for an address it does not have
DeviceAccepts(address, n) == address \in DeviceAddresses /\ address + n - 1 \in DeviceAddresses

\* ModbusProtocol.write_data of a connected driver
ModbusWriteData(data_type, address, value) ==
    /\ mb_requests < MaxRequests
    /\ LET request == [op |-> "write", data_type |-> data_type,
                       address |-> address, count |-> 0, value |-> value]
           raisedOutcome == [raised |-> TRUE, data |-> <<>>]
           done == [raised |-> FALSE, data |-> <<>>]
       IN  IF data_type = "coil"
           THEN LET bits == IF value.kind = "list"
                            THEN [i \in 1..Len(value.n) |->
                                     value.n[i] # Wide(0, 0)]
                            ELSE <<BoolOf(value)>>
                    frame == [fc |-> IF value.kind = "list" THEN 15 ELSE 5,
                              address |-> address, count |-> Len(bits),
                              values |-> bits]
                IN  IF DeviceAccepts(address, Len(bits))
                    THEN /\ coils' = [a \in DeviceAddresses |->
                                        IF a - address \in 0..(Len(bits) - 1)
                                        THEN bits[a - address + 1] ELSE coils[a]]
                         /\ UNCHANGED holding
                         /\ ModbusCallEnds(request, <<frame>>, done)
                    ELSE /\ UNCHANGED <<holding, coils>>
                         /\ ModbusCallEnds(request, <<frame>>, raisedOutcome)
           ELSE LET conv == IF value.kind = "list"
                            THEN ConvertDataToRegisters(value.n, data_type)
                            ELSE LET r == ConvertSingleValueToRegister(IntOf(value), data_type)
                                 IN  [raised |-> r.raised, registers |-> <<r.register>>]
                    frame == [fc |-> IF value.kind = "list" THEN 16 ELSE 6,
                              address |-> address,
                              count |-> Len(conv.registers),
                              values |-> conv.registers]
                IN  IF conv.raised
                    THEN /\ UNCHANGED <<holding, coils>>
                         /\ ModbusCallEnds(request, <<>>, raisedOutcome)
                    ELSE IF DeviceAccepts(address, Len(conv.registers))
                    THEN /\ holding' = [a \in DeviceAddresses |->
                                          IF a - address \in 0..(Len(conv.registers) - 1)
                                          THEN conv.registers[a - address + 1]
                                          ELSE holding[a]]
                         /\ UNCHANGED coils
                         /\ ModbusCallEnds(request, <<frame>>, done)
                    ELSE /\ UNCHANGED <<holding, coils>>
                         /\ ModbusCallEnds(request, <<frame>>, raisedOutcome)

\* ModbusProtocol.read_data of a connected driver
ModbusReadData(data_type, address, count) ==
    /\ mb_requests < MaxRequests
    /\ LET request == [op |-> "read", data_type |-> data_type,
                       address |-> address, count |-> count,
                       value |-> PyInt(0)]
           fc == IF data_type = "coil" THEN 1
                 ELSE IF data_type = "discrete_input" THEN 2
                 ELSE IF data_type \in {"holding_register", "uint16", "int16"}
                 THEN 3 ELSE 4
           frame == [fc |-> fc, address |-> address, count |-> count,
                     values |-> <<>>]
           answer == [i \in 1..count |->
                        IF fc = 1 THEN coils[address + i - 1]
                        ELSE IF fc = 2 THEN DiscreteInput(address + i - 1)
                        ELSE IF fc = 3 THEN holding[address + i - 1]
                        ELSE InputRegister(address + i - 1)]
       IN  IF DeviceAccepts(address, count)
           THEN ModbusCallEnds(request, <<frame>>,
                   [raised |-> FALSE,
                    data |-> IF fc \in {1, 2} THEN answer
                             ELSE ConvertRegistersToData(answer, data_type)])
           ELSE ModbusCallEnds(request, <<frame>>, [raised |-> TRUE, data |-> <<>>])
    /\ UNCHANGED <<holding, coils>>

\* the data types of a request
ModbusDataTypes == {"coil", "discrete_input", "holding_register",
                    "input_register", "uint16", "int16", "uint32", "int32",
                    "float32"}

\* the scalar values and the one-element lists written in the model
ScalarValues == {PyInt(0), PyInt(1), PyInt(65535), PyInt(65536),
                 PyInt(-32768), PyInt(-1), PyInt(70000), PyFloat(F32_1_5)}
\* 0, 1, 65536, 70000, 2^31 - 1, 2^31, 2^32 - 1, 2^32, -1, -70000, -2^31
\* and -2^31 - 1
WideValues == {Wide(0, 0), Wide(0, 1), Wide(1, 0), Wide(1, 4464),
               Wide(32767, 65535), Wide(32768, 0), Wide(65535, 65535),
               Wide(65536, 0), Wide(-1, 65535), Wide(-2, 61072),
               Wide(-32768, 0), Wide(-32769, 65535)}
ListValues == {PyList(<<w>>) : w \in WideValues}

ModbusNext ==
    \/ \E dt \in ModbusDataTypes, a \in {0, 1}, v \in ScalarValues :
          ModbusWriteData(dt, a, v)
    \/ \E dt \in {"uint16", "int16", "uint32", "int32"}, a \in {0, 1},
          v \in ListValues :
          ModbusWriteData(dt, a, v)
    \/ \E dt \in ModbusDataTypes, a \in {0, 1}, c \in {1, 2} :
          ModbusReadData(dt, a, c)

\* the state after connect(); the other parts at rest
ModbusInit ==
    /\ InitWith({TRUE})
    /\ VfdUnused
    /\ drv_auto_reconnect = TRUE
    /\ SyncUnused
    /\ WriteUnused

\* a connected Modbus driver and its device
SpecModbus == ModbusInit /\ [][ModbusNext]_vars

(***************************************************************************)
(* Part VII.  The session of EthernetIPProtocol: connect, disconnect,      *)
(* read_data and write_data, each run under the driver's lock.  A frame is *)
(* the first eight bytes the driver hands to client.send: the command in   *)
(* bytes 0..2, the length in bytes 2..4, the session handle in bytes 4..8. *)
(* The lock, the heartbeat loop and the statistics are those of Part III.  *)
(***************************************************************************)
\* struct.unpack('>I', b): four bytes, the first the most significant
Unpack32BE(b) == Wide(b[1] * 256 + b[2], b[3] * 256 + b[4])

\* four bytes, the first the least significant
Pack32LE(w) == <<w.lo % 256, w.lo \div 256, w.hi % 256, w.hi \div 256>>

\* struct.pack('>I', w)
Pack32BE(w) == <<w.hi \div 256, w.hi % 256, w.lo \div 256, w.lo % 256>>

\* register_cmd of _register_session, its first eight bytes
RegisterCmd == <<101, 0, 4, 0, 0, 0, 0, 0>>

\* struct.pack('>BBHI', command, 0x00, 0x00, self._session_id)
SessionHeader(command, session_id) == <<command, 0, 0, 0>> \o Pack32BE(session_id)

\* the truth value of self._session_id: None and 0 are false
SessionSet == eip_session # <<>> /\ eip_session[1] # Wide(0, 0)

\* client.send(cmd): the frame is on the wire
EipSent(cmd) == Append(eip_wire, [bytes |-> cmd, first |-> eip_fresh,
                                  granted |-> eip_reply])

\* the replies of a device to RegisterSession: none, too short to hold a
\* handle, and whole ones
Handles == {<<0, 0, 0, 0>>, <<0, 0, 0, 1>>, <<1, 2, 3, 4>>,
            <<255, 255, 255, 255>>}
RegisterReplies == {<<>>, <<101, 0>>, <<101, 0, 4, 0>>, <<101, 0, 4, 0, 0, 1>>}
                       \cup {<<101, 0, 4, 0>> \o h \o <<0, 0, 0, 0>> : h \in Handles}

\* EthernetIPProtocol._register_session given the reply (<<>> for None):
\* the new self._session_id, <<>> for None
RegisterSession(response) ==
    IF Len(response) >= 8 THEN <<Unpack32BE(SubSeq(response, 5, 8))>>
    ELSE <<>>

\* the handle a reply grants, <<>> when it holds none
GrantedBy(response) ==
    IF Len(response) >= 8 THEN SubSeq(response, 5, 8) ELSE <<>>

\* EthernetIPProtocol.connect: opened says whether connector() and
\* __aenter__ went through, raised whether client.send raised
EipConnect(opened, raised, response) ==
    /\ eip_calls < MaxEipCalls
    /\ eip_calls' = eip_calls + 1
    /\ IF eip_client /\ SessionSet
       THEN UNCHANGED <<eip_client, eip_session, eip_connected,
                        eip_heartbeat, eip_fresh, eip_reply, eip_wire>>
       ELSE IF ~opened
       THEN /\ \E made \in BOOLEAN :
                  /\ eip_client' = (eip_client \/ made)
                  /\ eip_fresh' = (eip_fresh \/ made)
            /\ UNCHANGED <<eip_session, eip_connected, eip_heartbeat,
                           eip_reply, eip_wire>>
       ELSE LET session_id == IF raised THEN <<>> ELSE RegisterSession(response)
                set == session_id # <<>> /\ session_id[1] # Wide(0, 0)
            IN  /\ eip_client' = TRUE
                /\ eip_wire' = Append(eip_wire, [bytes |-> RegisterCmd,
                                                 first |-> TRUE,
                                                 granted |-> <<>>])
                /\ eip_fresh' = FALSE
                /\ eip_reply' = IF raised THEN <<>> ELSE GrantedBy(response)
                /\ eip_session' = session_id
                /\ eip_connected' = (eip_connected \/ set)
                /\ eip_heartbeat' = (eip_heartbeat \/ (set /\ drv_auto_reconnect))
    /\ UNCHANGED noneipvars

\* EthernetIPProtocol.disconnect: closed says whether __aexit__ went through
EipDisconnect(closed) ==
    /\ eip_calls < MaxEipCalls
    /\ eip_calls' = eip_calls + 1
    /\ eip_heartbeat' = FALSE
    /\ IF SessionSet
       THEN /\ eip_wire' = EipSent(SessionHeader(102, eip_session[1]))
            /\ eip_session' = <<>>
            /\ eip_reply' = <<>>
            /\ eip_fresh' = FALSE
       ELSE UNCHANGED <<eip_wire, eip_session, eip_reply, eip_fresh>>
    /\ IF eip_client /\ ~closed
       THEN UNCHANGED <<eip_client, eip_connected>>
       ELSE /\ eip_client' = FALSE
            /\ eip_connected' = FALSE
    /\ UNCHANGED noneipvars

\* EthernetIPProtocol.read_data: without a client or a session it raises,
\* else _read_tag sends a SendRRData frame
EipReadData ==
    /\ eip_calls < MaxEipCalls
    /\ eip_calls' = eip_calls + 1
    /\ IF eip_client /\ SessionSet
       THEN /\ eip_wire' = EipSent(SessionHeader(112, eip_session[1]))
            /\ eip_fresh' = FALSE
       ELSE UNCHANGED <<eip_wire, eip_fresh>>
    /\ UNCHANGED <<eip_client, eip_session, eip_connected, eip_heartbeat,
                   eip_reply>>
    /\ UNCHANGED noneipvars

\* EthernetIPProtocol.write_data: converts says whether
\* _convert_data_to_cip accepted the value; then _write_tag sends the frame
EipWriteData(converts) ==
    /\ eip_calls < MaxEipCalls
    /\ eip_calls' = eip_calls + 1
    /\ IF eip_client /\ SessionSet /\ converts
       THEN /\ eip_wire' = EipSent(SessionHeader(112, eip_session[1]))
            /\ eip_fresh' = FALSE
       ELSE UNCHANGED <<eip_wire, eip_fresh>>
    /\ UNCHANGED <<eip_client, eip_session, eip_connected, eip_heartbeat,
                   eip_reply>>
    /\ UNCHANGED noneipvars

EipNext ==
    \/ \E opened \in BOOLEAN, raised \in BOOLEAN, response \in RegisterReplies :
          EipConnect(opened, raised, response)
    \/ \E closed \in BOOLEAN : EipDisconnect(closed)
    \/ EipReadData
    \/ \E converts \in BOOLEAN : EipWriteData(converts)

\* a constructed, unconnected Ethernet/IP driver; the other parts at rest
EipInit ==
    /\ InitWith({TRUE})
    /\ VfdUnused
    /\ drv_auto_reconnect \in BOOLEAN
    /\ SyncUnused
    /\ WriteUnused

SpecEip == EipInit /\ [][EipNext]_vars

(***************************************************************************)
(* Part VIII.  VFDCommunication: the monitoring loop and set_frequency.    *)
(* Of VFDParameters the model keeps status, running, fault_code and        *)
(* frequency_setpoint; frequencies are whole Hz.  The drive is its status  *)
(* word and its fault code register; both callbacks are registered.        *)
(***************************************************************************)
\* status_value & mask for a mask of one bit
HasBit(status_value, mask) == (status_value \div mask) % 2 = 1

\* a decoder that looks at the running bit first
DecodeStatus_RunningFirst(status_value) ==
    IF HasBit(status_value, 1) THEN "running"
    ELSE IF HasBit(status_value, 32768) THEN "fault"
    ELSE IF HasBit(status_value, 16384) THEN "warning"
    ELSE IF HasBit(status_value, 2) THEN "accelerating"
    ELSE IF HasBit(status_value, 4) THEN "decelerating"
    ELSE IF HasBit(status_value, 8) THEN "ready"
    ELSE "stopped"

\* VFDCommunication._decode_status
DecodeStatus(status_value) ==
    IF HasBit(status_value, 32768) THEN "fault"
    ELSE IF HasBit(status_value, 16384) THEN "warning"
    ELSE IF HasBit(status_value, 1) THEN "running"
    ELSE IF HasBit(status_value, 2) THEN "accelerating"
    ELSE IF HasBit(status_value, 4) THEN "decelerating"
    ELSE IF HasBit(status_value, 8) THEN "ready"
    ELSE "stopped"

\* str(bool)
Str(b) == IF b THEN "True" ELSE "False"

\* the calls of the callbacks
StatusChange(first, second) ==
    [cb |-> "on_status_change", first |-> first, second |-> second, code |-> 0]
Fault(code) == [cb |-> "on_fault", first |-> "-", second |-> "-", code |-> code]

\* one pass of monitoring_loop: read_parameters (of which _read_status),
\* then the callbacks.  read says whether _read_register returned a value.
MonitoringLoop(read) ==
    /\ vfd_monitoring
    /\ vfd_steps < MaxVfdSteps
    /\ vfd_steps' = vfd_steps + 1
    /\ LET old_status == vfd_status
           old_running == vfd_running
           new_status == IF read THEN DecodeStatus(vfd_word) ELSE vfd_status
           runs == IF read THEN HasBit(vfd_word, 1) ELSE vfd_running
       IN  /\ vfd_status' = new_status
           /\ vfd_running' = runs
           /\ vfd_events' =
                 (IF new_status # old_status
                  THEN <<StatusChange(new_status, old_status)>> ELSE <<>>)
                 \o (IF runs # old_running
                     THEN <<StatusChange("running", Str(runs))>> ELSE <<>>)
                 \o (IF vfd_fault_code # 0
                     THEN <<Fault(vfd_fault_code)>> ELSE <<>>)
           /\ vfd_iteration' = [ran |-> TRUE, read |-> read,
                                old_status |-> old_status,
                                word |-> vfd_word,
                                device_fault |-> vfd_device_fault]
    /\ UNCHANGED <<vfd_monitoring, vfd_fault_code, vfd_setpoint, vfd_word,
                   vfd_device_fault, vfd_call>>
    /\ UNCHANGED nonvfdvars

\* the frequencies asked for without the upper limit
ValidFrequency_NoUpperLimit(frequency) == frequency >= 0

\* set_frequency: not (frequency < 0 or frequency > max_frequency)
ValidFrequency(frequency) == ~(frequency < 0 \/ frequency > max_frequency)

\* VFDCommunication.set_frequency; success is what protocol.write_data
\* does with the request (it returns True, or raises)
SetFrequency(frequency, success) ==
    /\ vfd_steps < MaxVfdSteps
    /\ vfd_steps' = vfd_steps + 1
    /\ IF ~ValidFrequency(frequency)
       THEN /\ vfd_call' = [op |-> "set_frequency", frequency |-> frequency,
                            before |-> vfd_setpoint, writes |-> <<>>,
                            success |-> FALSE, returned |-> FALSE]
            /\ UNCHANGED vfd_setpoint
       ELSE /\ vfd_call' = [op |-> "set_frequency", frequency |-> frequency,
                            before |-> vfd_setpoint,
                            writes |-> <<[address |-> FrequencySetpointRegister,
                                          value |-> frequency,
                                          data_type |-> "float32"]>>,
                            success |-> success, returned |-> success]
            /\ vfd_setpoint' = IF success THEN frequency ELSE vfd_setpoint
    /\ UNCHANGED <<vfd_monitoring, vfd_status, vfd_running, vfd_fault_code,
                   vfd_word, vfd_device_fault, vfd_iteration, vfd_events>>
    /\ UNCHANGED nonvfdvars

\* VFDCommunication.connect: a connected protocol starts the monitoring
VfdConnect(success) ==
    /\ vfd_steps < MaxVfdSteps
    /\ vfd_steps' = vfd_steps + 1
    /\ vfd_monitoring' = (vfd_monitoring \/ success)
    /\ UNCHANGED <<vfd_status, vfd_running, vfd_fault_code, vfd_setpoint,
                   vfd_word, vfd_device_fault, vfd_iteration, vfd_events,
                   vfd_call>>
    /\ UNCHANGED nonvfdvars

\* VFDCommunication.disconnect: _stop_monitoring
VfdDisconnect ==
    /\ vfd_steps < MaxVfdSteps
    /\ vfd_steps' = vfd_steps + 1
    /\ vfd_monitoring' = FALSE
    /\ UNCHANGED <<vfd_status, vfd_running, vfd_fault_code, vfd_setpoint,
                   vfd_word, vfd_device_fault, vfd_iteration, vfd_events,
                   vfd_call>>
    /\ UNCHANGED nonvfdvars

\* the drive changes its status word and its fault code
DriveChanges(word, fault) ==
    /\ <<word, fault>> # <<vfd_word, vfd_device_fault>>
    /\ vfd_steps < MaxVfdSteps
    /\ vfd_steps' = vfd_steps + 1
    /\ vfd_word' = word
    /\ vfd_device_fault' = fault
    /\ UNCHANGED <<vfd_monitoring, vfd_status, vfd_running, vfd_fault_code,
                   vfd_setpoint, vfd_iteration, vfd_events, vfd_call>>
    /\ UNCHANGED nonvfdvars

\* status words, fault codes and frequencies tried
StatusWords == {0, 1, 2, 8, 16384, 32768, 32769}
FaultCodes == {0, 17}
Frequencies == {-1, 0, 30, 60, 61}

VfdNext ==
    \/ \E read \in BOOLEAN : MonitoringLoop(read)
    \/ \E f \in Frequencies, success \in BOOLEAN : SetFrequency(f, success)
    \/ \E success \in BOOLEAN : VfdConnect(success)
    \/ VfdDisconnect
    \/ \E w \in StatusWords, c \in FaultCodes : DriveChanges(w, c)

\* a constructed VFDCommunication; the other parts at rest
VfdInit ==
    /\ InitWith({TRUE})
    /\ drv_auto_reconnect = TRUE
    /\ SyncUnused
    /\ WriteUnused
    /\ VfdUnused

SpecVfd == VfdInit /\ [][VfdNext]_vars

\* _decode_status over the 16-bit status words: a drive that shows any of
\* them when the VFDCommunication connects and reads it
DecodeInit ==
    /\ InitWith({TRUE})
    /\ drv_auto_reconnect = TRUE
    /\ SyncUnused
    /\ WriteUnused
    /\ vfd_word \in 0..65535

DecodeNext ==
    \/ VfdConnect(TRUE)
    \/ \E read \in BOOLEAN : MonitoringLoop(read)

SpecDecode == DecodeInit /\ [][DecodeNext]_vars

(***************************************************************************)
(* Part IX.  PLCService of examples/plc_service.py: write_output and       *)
(* read_outputs on the process image of the outputs (area PA).  A string   *)
(* is the sequence of its characters.                                      *)
(***************************************************************************)
\* int(s) of a string of decimal digits; -1 where int raises ValueError
RECURSIVE ParseInt(_)
ParseInt(s) ==
    IF s = <<>> \/ \E i \in 1..Len(s) : s[i] \notin DOMAIN DigitValue THEN -1
    ELSE IF Len(s) = 1 THEN DigitValue[s[1]]
    ELSE 10 * ParseInt(SubSeq(s, 1, Len(s) - 1)) + DigitValue[s[Len(s)]]

\* output.split("."): the parts of a string with at most one "."
Split(output) ==
    LET dots == {i \in 1..Len(output) : output[i] = "."}
    IN  IF dots = {} THEN <<output>>
        ELSE LET d == CHOOSE i \in dots : TRUE
             IN  <<SubSeq(output, 1, d - 1), SubSeq(output, d + 1, Len(output))>>

\* 1 << bit_num
Shl(bit_num) == 2 ^ bit_num

\* byte | (1 << bit_num) and byte & ~(1 << bit_num)
SetBit(byte, bit_num) ==
    IF HasBit(byte, Shl(bit_num)) THEN byte ELSE byte + Shl(bit_num)
ClearBit(byte, bit_num) ==
    IF HasBit(byte, Shl(bit_num)) THEN byte - Shl(bit_num) ELSE byte

\* the prefix write_output asks for
OutputPrefix == "A"

\* write_output up to the transport: what it parses from output, or that
\* it raises ValueError
ParseOutput(output) ==
    LET parts == Split(output)
    IN  IF output = <<>> \/ output[1] # OutputPrefix
        THEN [raised |-> TRUE, byte_num |-> 0, bit_num |-> 0]
        ELSE IF Len(parts) # 2
        THEN [raised |-> TRUE, byte_num |-> 0, bit_num |-> 0]
        ELSE LET byte_num == ParseInt(Tail(parts[1]))
                 bit_num == ParseInt(parts[2])
             IN  [raised |-> byte_num = -1 \/ bit_num = -1,
                  byte_num |-> byte_num, bit_num |-> bit_num]

\* the record of a write_output call: its arguments, whether the service
\* was connected, what the transport was going to do, area PA before the
\* call and what the call returned
WriteOutputCall(output, value, transport, returned) ==
    [op |-> "write_output", output |-> output, value |-> value,
     connected |-> svc_connected, transport |-> transport,
     before |-> svc_pa, returned |-> returned]

\* the except branch: self.data["status"]["error_count"] += 1
SvcFails(output, value, transport) ==
    /\ svc_error_count' = svc_error_count + 1
    /\ svc_call' = WriteOutputCall(output, value, transport, FALSE)
    /\ UNCHANGED <<svc_pa, svc_outputs>>

\* PLCService.write_output; transport says which of read_area and
\* write_area, if any, raises
WriteOutput(output, value, transport) ==
    /\ svc_steps < MaxSvcSteps
    /\ svc_steps' = svc_steps + 1
    /\ IF ~svc_connected
       THEN /\ svc_call' = WriteOutputCall(output, value, transport, FALSE)
            /\ UNCHANGED <<svc_pa, svc_outputs, svc_error_count>>
       ELSE LET parsed == ParseOutput(output)
            IN  IF parsed.raised THEN SvcFails(output, value, transport)
                ELSE IF parsed.byte_num \notin OutputBytes
                        \/ transport = "read raises"
                THEN SvcFails(output, value, transport)
                ELSE LET current == svc_pa[parsed.byte_num]
                         new_data == IF value
                                     THEN SetBit(current, parsed.bit_num)
                                     ELSE ClearBit(current, parsed.bit_num)
                     IN  IF new_data > 255 \/ transport = "write raises"
                         THEN SvcFails(output, value, transport)
                         ELSE /\ svc_pa' = [svc_pa EXCEPT
                                               ![parsed.byte_num] = new_data]
                              /\ svc_outputs' =
                                    [k \in DOMAIN svc_outputs \cup {output} |->
                                        IF k = output THEN value
                                        ELSE svc_outputs[k]]
                              /\ svc_call' = WriteOutputCall(output, value,
                                                             transport, TRUE)
                              /\ UNCHANGED svc_error_count
    /\ UNCHANGED svc_connected
    /\ UNCHANGED nonsvcvars

\* PLCService.read_outputs: byte 0 of PA into data["outputs"]
ReadOutputs(raises) ==
    /\ svc_steps < MaxSvcSteps
    /\ svc_steps' = svc_steps + 1
    /\ IF ~svc_connected THEN UNCHANGED <<svc_outputs, svc_error_count>>
       ELSE IF raises
       THEN /\ svc_error_count' = svc_error_count + 1
            /\ UNCHANGED svc_outputs
       ELSE /\ svc_outputs' =
                  [k \in DOMAIN svc_outputs |->
                      IF k \in OutputKeys
                      THEN HasBit(svc_pa[0], Shl(DigitValue[k[4]]))
                      ELSE svc_outputs[k]]
            /\ UNCHANGED svc_error_count
    /\ UNCHANGED <<svc_connected, svc_pa, svc_call>>
    /\ UNCHANGED nonsvcvars

\* PLCService.connect, when the client connects
SvcConnect ==
    /\ svc_steps < MaxSvcSteps
    /\ svc_steps' = svc_steps + 1
    /\ svc_connected' = TRUE
    /\ UNCHANGED <<svc_pa, svc_outputs, svc_error_count, svc_call>>
    /\ UNCHANGED nonsvcvars

\* PLCService.disconnect
SvcDisconnect ==
    /\ svc_steps < MaxSvcSteps
    /\ svc_steps' = svc_steps + 1
    /\ svc_connected' = FALSE
    /\ UNCHANGED <<svc_pa, svc_outputs, svc_error_count, svc_call>>
    /\ UNCHANGED nonsvcvars

\* the addresses asked for
OutputNames == {<<"Q", "0", ".", "3">>, <<"Q", "0", ".", "0">>,
                <<"A", "0", ".", "3">>, <<"A", "0", ".", "0">>,
                <<"A", "1", ".", "7">>, <<"A", "0", ".", "8">>,
                <<"A", "0">>, <<"E", "0", ".", "1">>}

SvcNext ==
    \/ \E output \in OutputNames, value \in BOOLEAN,
          transport \in {"ok", "read raises", "write raises"} :
          WriteOutput(output, value, transport)
    \/ \E raises \in BOOLEAN : ReadOutputs(raises)
    \/ SvcConnect
    \/ SvcDisconnect

\* a constructed PLCService; the other parts at rest
SvcInit ==
    /\ InitWith({TRUE})
    /\ VfdUnused
    /\ drv_auto_reconnect = TRUE
    /\ SyncUnused
    /\ WriteUnused

SpecService == SvcInit /\ [][SvcNext]_vars

(***************************************************************************)
(* Part X.  The address resolvers: AddressParser.parse_address and         *)
(* AddressParser.validate_address of areas.py, DataValidator               *)
(* .validate_address of data_types.py.  An address is the sequence of its  *)
(* characters; a regular expression is modelled by the strings it matches. *)
(***************************************************************************)
\* the parts of a string between its "." characters
RECURSIVE Fields(_)
Fields(s) ==
    IF \A i \in 1..Len(s) : s[i] # "." THEN <<s>>
    ELSE LET d == CHOOSE i \in 1..Len(s) :
                     s[i] = "." /\ \A j \in 1..(i - 1) : s[j] # "."
         IN  <<SubSeq(s, 1, d - 1)>> \o Fields(SubSeq(s, d + 1, Len(s)))

\* \d+ and [0-9]+
Digits(s) == s # <<>> /\ \A i \in 1..Len(s) : s[i] \in DOMAIN DigitValue

\* a literal prefix followed by \d+
PrefixDigits(s, prefix) ==
    /\ Len(s) > Len(prefix)
    /\ SubSeq(s, 1, Len(prefix)) = prefix
    /\ Digits(SubSeq(s, Len(prefix) + 1, Len(s)))

\* the number after a prefix of n characters
NumberAfter(s, n) == ParseInt(SubSeq(s, n + 1, Len(s)))

\* the widths of 'size' for B, W and D
SizeOf(letter) == IF letter = "B" THEN 1 ELSE IF letter = "W" THEN 2 ELSE 4
TypeOf(letter) ==
    IF letter = "B" THEN "byte" ELSE IF letter = "W" THEN "word" ELSE "dword"

Rejected == [raised |-> TRUE, type |-> "-", byte |-> 0, bit |-> 0, size |-> 0]
Parsed(type, byte, bit, size) ==
    [raised |-> FALSE, type |-> type, byte |-> byte, bit |-> bit, size |-> size]

\* AddressParser.parse_address: the first pattern that matches gives the
\* result ('bit' is 0 where the result has no such key); no match raises
\* ValueError
ParseAddress(address) ==
    LET f == Fields(address)
    IN  IF Len(f) = 2 /\ \E l \in {"I", "Q", "M"} : PrefixDigits(f[1], <<l>>)
           /\ Digits(f[2])
        THEN Parsed("bit", NumberAfter(f[1], 1), ParseInt(f[2]), 1)
        ELSE IF Len(f) = 1
                /\ \E l \in {"I", "Q", "M"}, w \in {"B", "W", "D"} :
                      PrefixDigits(f[1], <<l, w>>)
        THEN Parsed(TypeOf(f[1][2]), NumberAfter(f[1], 2), 0, SizeOf(f[1][2]))
        ELSE IF Len(f) = 2 /\ PrefixDigits(f[1], <<"D", "B">>)
                /\ \E w \in {"B", "W", "D"} : PrefixDigits(f[2], <<"D", "B", w>>)
        THEN Parsed(IF f[2][3] = "B" THEN "b"
                    ELSE IF f[2][3] = "W" THEN "w" ELSE "d",
                    NumberAfter(f[2], 3), 0, SizeOf(f[2][3]))
        ELSE IF Len(f) = 3 /\ PrefixDigits(f[1], <<"D", "B">>)
                /\ PrefixDigits(f[2], <<"D", "B", "X">>) /\ Digits(f[3])
        THEN Parsed("bit", NumberAfter(f[2], 3), ParseInt(f[3]), 1)
        ELSE IF Len(f) = 1 /\ PrefixDigits(f[1], <<"T">>)
        THEN Parsed("timer", 0, 0, 2)
        ELSE IF Len(f) = 1 /\ PrefixDigits(f[1], <<"C">>)
        THEN Parsed("counter", 0, 0, 2)
        ELSE Rejected

\* DataValidator.validate_address: one of its five patterns matches
DataValidatorAccepts(address) ==
    LET f == Fields(address)
    IN  \/ /\ Len(f) = 2
           /\ \E l \in {"I", "Q", "M"} : PrefixDigits(f[1], <<l>>)
           /\ Len(f[2]) = 1
           /\ f[2][1] \in {"0", "1", "2", "3", "4", "5", "6", "7"}
        \/ /\ Len(f) = 1
           /\ \E l \in {"I", "Q", "M"}, w \in {"B", "W"} :
                 PrefixDigits(f[1], <<l, w>>)
        \/ /\ Len(f) = 2
           /\ PrefixDigits(f[1], <<"D", "B">>)
           /\ \E w \in {"B", "W"} : PrefixDigits(f[2], <<"D", "B", w>>)
        \/ Len(f) = 1 /\ PrefixDigits(f[1], <<"T">>)
        \/ Len(f) = 1 /\ PrefixDigits(f[1], <<"C">>)

\* the record of a call: which function, its argument and what came of it
AddressCall(fn, address, accepted, parsed) ==
    [fn |-> fn, address |-> address, accepted |-> accepted,
     type |-> parsed.type, bit |-> parsed.bit, size |-> parsed.size]

\* AddressParser.parse_address(address)
ParseAddressCall(address) ==
    /\ addr_calls < MaxAddressCalls
    /\ addr_calls' = addr_calls + 1
    /\ LET parsed == ParseAddress(address)
       IN  addr_call' = AddressCall("parse_address", address,
                                    ~parsed.raised, parsed)
    /\ UNCHANGED nonaddrvars

\* AddressParser.validate_address(address): parse_address did not raise
ValidateAddress(address) ==
    /\ addr_calls < MaxAddressCalls
    /\ addr_calls' = addr_calls + 1
    /\ addr_call' = AddressCall("AddressParser.validate_address", address,
                                ~ParseAddress(address).raised, Rejected)
    /\ UNCHANGED nonaddrvars

\* DataValidator.validate_address(address)
DataValidateAddress(address) ==
    /\ addr_calls < MaxAddressCalls
    /\ addr_calls' = addr_calls + 1
    /\ addr_call' = AddressCall("DataValidator.validate_address", address,
                                DataValidatorAccepts(address), Rejected)
    /\ UNCHANGED nonaddrvars

\* the addresses asked about
Addresses ==
    {<<"I", "0", ".", "0">>, <<"I", "0", ".", "7">>, <<"I", "0", ".", "9">>,
     <<"Q", "1", ".", "5">>, <<"Q", "0", ".", "8">>, <<"M", "2", ".", "3">>,
     <<"M", "0", ".", "1", "0">>, <<"I", "1", "2", ".", "0", "7">>,
     <<"I", "B", "0">>, <<"Q", "W", "1">>, <<"M", "D", "4">>,
     <<"D", "B", "1", ".", "D", "B", "W", "0">>,
     <<"D", "B", "2", ".", "D", "B", "D", "1", "0">>,
     <<"D", "B", "1", ".", "D", "B", "X", "5", ".", "0">>,
     <<"D", "B", "1", ".", "D", "B", "X", "5", ".", "7">>,
     <<"D", "B", "1", ".", "D", "B", "X", "5", ".", "8">>,
     <<"D", "B", "1", ".", "D", "B", "X", "5">>,
     <<"T", "1">>, <<"C", "2">>, <<"X", "0", ".", "0">>, <<"A", "0", ".", "0">>,
     <<"I", "0">>, <<"I", ".", "0">>, <<"I", "0", ".">>, <<>>,
     <<"I", "0", ".", "0", ".", "0">>}

AddrNext ==
    \/ \E address \in Addresses : ParseAddressCall(address)
    \/ \E address \in Addresses : ValidateAddress(address)
    \/ \E address \in Addresses : DataValidateAddress(address)

\* no call made yet; the other parts at rest
AddrInit ==
    /\ InitWith({TRUE})
    /\ VfdUnused
    /\ drv_auto_reconnect = TRUE
    /\ SyncUnused
    /\ WriteUnused

SpecAddr == AddrInit /\ [][AddrNext]_vars

(***************************************************************************)
(* Part XI.  The sync loop of a node (plc_plc.py:273-291) observed pass by *)
(* pass.  sync_loop does not take self._lock, so add_data_mapping and      *)
(* remove_data_mapping run whenever the loop is suspended in               *)
(* sync_data_once or in asyncio.sleep, and "for mapping in                 *)
(* self.data_mappings" goes on with the list index it had reached.  The    *)
(* actions are those of Part II with the observation variables kept.       *)
(***************************************************************************)
\* a second continuous mapping sourced at A, with another target node
M_local == Mapping("A", 1, "A", 2, "continuous")
IterMappings == {M_cont, M_local, M_per}

nonnetitervars == <<connvars, drvvars, syncvars, wrvars, mbvars, eipvars, vfdvars, svcvars, addrvars, s7rvars, closevars, wovars>>
nonclosevars == <<netvars, connvars, syncvars, wrvars, mbvars, eipvars, vfdvars, svcvars, addrvars, itervars, s7rvars, drvvars, wovars>>
nonwovars == <<netvars, connvars, syncvars, wrvars, mbvars, eipvars, vfdvars, svcvars, addrvars, itervars, s7rvars, closevars, drvvars>>

\* number of copies of m in the list
Copies(tbl, m) == Cardinality({i \in 1..Len(tbl) : tbl[i] = m})

\* the mappings the list holds exactly once
Once(tbl) == {m \in IterMappings : Copies(tbl, m) = 1}

\* index of the first copy of m in the list, 0 when there is none
IndexOf(tbl, m) ==
    LET hits == {i \in 1..Len(tbl) : tbl[i] = m}
    IN  IF hits = {} THEN 0
        ELSE CHOOSE i \in hits : \A j \in hits : i <= j

\* add_data_mapping next to the observed loop
AddDataMappingObserved(m) ==
    /\ Len(data_mappings) < MaxMappings
    /\ data_mappings' = AddDataMappingTable(data_mappings, plcs, m)
    /\ inserted' = IF Len(data_mappings') > Len(data_mappings)
                   THEN Append(inserted, m)
                   ELSE inserted
    /\ iter_kept' = [n \in Nodes |-> iter_kept[n] \cap Once(data_mappings')]
    /\ UNCHANGED <<plcs, sync_tasks, sync_idx, running, rec_created, rec_sleep,
                   is_connected, link, dev_up, mem, stopped, loaded>>
    /\ UNCHANGED iter_synced
    /\ UNCHANGED nonnetitervars

\* remove_data_mapping next to the observed loop
RemoveDataMappingObserved(s, t) ==
    /\ data_mappings' = RemoveDataMappingTable(data_mappings, s, t)
    /\ loaded' = (loaded /\ data_mappings' = data_mappings)
    /\ inserted' =
         IF FirstMatch(data_mappings, s, t) = 0 THEN inserted
         ELSE DeleteAt(inserted,
                       IndexOf(inserted,
                               data_mappings[FirstMatch(data_mappings, s, t)]))
    /\ iter_kept' = [n \in Nodes |-> iter_kept[n] \cap Once(data_mappings')]
    /\ UNCHANGED <<plcs, sync_tasks, sync_idx, running, rec_created, rec_sleep,
                   is_connected, link, dev_up, mem, stopped>>
    /\ UNCHANGED iter_synced
    /\ UNCHANGED nonnetitervars

\* what SyncIterate(n, i) hands to sync_data_once, as a list of length 0 or 1
Synced(n, i) ==
    LET j == NextSelected(data_mappings, i, n)
    IN  IF j <= Len(data_mappings) THEN <<data_mappings[j]>> ELSE <<>>

\* SyncLoopTop(n) enters the for loop
PassStarts(n) == running /\ n \in plcs

\* the event loop runs a created sync task for the first time
SyncStartObserved(n) ==
    /\ sync_tasks[n] = "created"
    /\ SyncLoopTop(n)
    /\ iter_synced' = [iter_synced EXCEPT
                         ![n] = IF PassStarts(n) THEN Synced(n, 1) ELSE @]
    /\ iter_kept' = [iter_kept EXCEPT
                       ![n] = IF PassStarts(n) THEN Once(data_mappings) ELSE @]
    /\ UNCHANGED <<plcs, data_mappings, running, rec_created, rec_sleep,
                   is_connected, link, dev_up, stopped, loaded>>
    /\ UNCHANGED inserted
    /\ UNCHANGED nonnetitervars

\* the task resumes inside the for loop after a sync_data_once
SyncResumeObserved(n) ==
    /\ sync_tasks[n] = "iter"
    /\ SyncIterate(n, sync_idx[n])
    /\ iter_synced' = [iter_synced EXCEPT ![n] = @ \o Synced(n, sync_idx[n])]
    /\ UNCHANGED <<plcs, data_mappings, running, rec_created, rec_sleep,
                   is_connected, link, dev_up, stopped, loaded>>
    /\ UNCHANGED <<inserted, iter_kept>>
    /\ UNCHANGED nonnetitervars

\* asyncio.sleep(plc.sync_interval / 1000) is over: the next pass
SyncWakeObserved(n) ==
    /\ sync_tasks[n] = "sleep"
    /\ SyncLoopTop(n)
    /\ iter_synced' = [iter_synced EXCEPT
                         ![n] = IF PassStarts(n) THEN Synced(n, 1) ELSE @]
    /\ iter_kept' = [iter_kept EXCEPT
                       ![n] = IF PassStarts(n) THEN Once(data_mappings) ELSE @]
    /\ UNCHANGED <<plcs, data_mappings, running, rec_created, rec_sleep,
                   is_connected, link, dev_up, stopped, loaded>>
    /\ UNCHANGED inserted
    /\ UNCHANGED nonnetitervars

IterNext ==
    \/ \E n \in Nodes : AddPlc(n)
    \/ \E n \in Nodes : RemovePlc(n)
    \/ \E m \in IterMappings : AddDataMappingObserved(m)
    \/ \E s \in Nodes, t \in Nodes : RemoveDataMappingObserved(s, t)
    \/ StartNetwork
    \/ StopNetwork
    \/ \E n \in Nodes : SyncStartObserved(n)
    \/ \E n \in Nodes : SyncResumeObserved(n)
    \/ \E n \in Nodes : SyncWakeObserved(n)
    \/ RecoveryStart
    \/ RecoveryWake

\* the engine as constructed, with devices that answer
IterInit == NetInit

SpecIter == IterInit /\ [][IterNext]_vars

(***************************************************************************)
(* Part XII.  S7Protocol.read_data (s7.py:91-121) with                     *)
(* _convert_bytes_to_data (s7.py:262-285).  The client answers a read_area *)
(* of n bytes with n bytes; a decoded value is written as the slice of the *)
(* answer it was made of, <<first byte, number of bytes>>.  A getter of    *)
(* snap7.util that is given fewer bytes than it decodes raises.            *)
(***************************************************************************)
\* request.data_type
S7DataTypes ==
    {"bool", "uint8", "int8", "uint16", "int16", "uint32", "int32",
     "float32", "float64"}

\* range(0, stop, step) as a list
Range(stop, step) ==
    [k \in 1..((stop + step - 1) \div step) |-> (k - 1) * step]

\* the step of the list comprehension for the data type
ComprehensionStep(data_type) ==
    IF data_type \in {"bool", "uint8", "int8"} THEN 1
    ELSE IF data_type \in {"uint16", "int16"} THEN 2
    ELSE IF data_type \in {"uint32", "int32", "float32"} THEN 4
    ELSE 8

\* bytes the getter called for the data type decodes: get_bool and get_sint
\* one, get_int (called for uint8 and int16) and get_uint two, get_udint,
\* get_dint and get_real four, get_lreal eight
GetterBytes(data_type) ==
    IF data_type \in {"bool", "int8"} THEN 1
    ELSE IF data_type \in {"uint8", "uint16", "int16"} THEN 2
    ELSE IF data_type \in {"uint32", "int32", "float32"} THEN 4
    ELSE 8

\* first byte the getter decodes for loop value i: get_bool(data_bytes, 0, i)
\* looks at byte 0 for every i, the others at byte i
GetterOffset(data_type, i) == IF data_type = "bool" THEN 0 ELSE i

\* _convert_bytes_to_data on an answer of len bytes: the decoded values,
\* or <<"raise">> when a getter runs off the end of the answer
ConvertBytesToData(len, data_type, count) ==
    LET idx == Range(count, ComprehensionStep(data_type))
    IN  IF \E k \in 1..Len(idx) :
               GetterOffset(data_type, idx[k]) + GetterBytes(data_type) > len
        THEN <<"raise">>
        ELSE [k \in 1..Len(idx) |->
                 <<GetterOffset(data_type, idx[k]), GetterBytes(data_type)>>]

\* the length argument of self._client.read_area (line 104)
ReadAreaLength(count) == count * 2

\* S7Protocol.read_data
S7ReadData(data_type, count, connected) ==
    /\ s7_reads < MaxS7Reads
    /\ s7_reads' = s7_reads + 1
    /\ s7_read' =
         IF ~connected
         THEN [fn |-> "read_data", data_type |-> data_type, count |-> count,
               connected |-> FALSE, length_bytes |-> 0, raised |-> TRUE,
               values |-> <<>>]
         ELSE LET converted ==
                      ConvertBytesToData(ReadAreaLength(count), data_type, count)
              IN  [fn |-> "read_data", data_type |-> data_type,
                   count |-> count, connected |-> TRUE,
                   length_bytes |-> ReadAreaLength(count),
                   raised |-> (converted = <<"raise">>),
                   values |-> IF converted = <<"raise">> THEN <<>>
                              ELSE converted]
    /\ UNCHANGED nons7rvars

S7ReadNext ==
    \E data_type \in S7DataTypes, count \in 1..MaxCount, connected \in BOOLEAN :
        S7ReadData(data_type, count, connected)

S7ReadInit == NetInit

SpecS7Read == S7ReadInit /\ [][S7ReadNext]_vars

(***************************************************************************)
(* Part XIII.  The route /api/plc/output (plc_api.py:94-126) calls         *)
(* write_output on the one PLCService that get_plc_service returns; each   *)
(* HTTP request is served by a thread of its own and neither the route nor *)
(* write_output takes a lock.  A thread is followed from client.read_area  *)
(* to client.write_area (plc_service.py:190-200).                          *)
(***************************************************************************)
\* a call that ended without writing
OutputRequestFailed(output, value) ==
    [pc |-> "returned", output |-> output, value |-> value, current |-> 0,
     returned |-> FALSE]

\* write_output up to and including client.read_area
WriteOutputRead(t, output, value, raises) ==
    /\ wo_thread[t].pc = "idle"
    /\ IF ~svc_connected
       THEN /\ wo_thread' = [wo_thread EXCEPT
                               ![t] = OutputRequestFailed(output, value)]
            /\ UNCHANGED svc_error_count
       ELSE LET parsed == ParseOutput(output)
            IN  IF parsed.raised \/ parsed.byte_num \notin OutputBytes \/ raises
                THEN /\ wo_thread' = [wo_thread EXCEPT
                                        ![t] = OutputRequestFailed(output, value)]
                     /\ svc_error_count' = svc_error_count + 1
                ELSE /\ wo_thread' =
                          [wo_thread EXCEPT
                             ![t] = [pc |-> "read", output |-> output,
                                     value |-> value,
                                     current |-> svc_pa[parsed.byte_num],
                                     returned |-> FALSE]]
                     /\ UNCHANGED svc_error_count
    /\ UNCHANGED <<svc_connected, svc_pa, svc_outputs, svc_call, svc_steps>>
    /\ UNCHANGED nonsvcwovars

\* write_output from the change of the bit to its return
WriteOutputWrite(t, raises) ==
    /\ wo_thread[t].pc = "read"
    /\ LET output == wo_thread[t].output
           value == wo_thread[t].value
           parsed == ParseOutput(output)
           new_data == IF value
                       THEN SetBit(wo_thread[t].current, parsed.bit_num)
                       ELSE ClearBit(wo_thread[t].current, parsed.bit_num)
       IN  IF new_data > 255 \/ raises
           THEN /\ wo_thread' = [wo_thread EXCEPT
                                   ![t] = OutputRequestFailed(output, value)]
                /\ svc_error_count' = svc_error_count + 1
                /\ UNCHANGED <<svc_pa, svc_outputs>>
           ELSE /\ svc_pa' = [svc_pa EXCEPT ![parsed.byte_num] = new_data]
                /\ svc_outputs' =
                      [k \in DOMAIN svc_outputs \cup {output} |->
                          IF k = output THEN value ELSE svc_outputs[k]]
                /\ wo_thread' = [wo_thread EXCEPT
                                   ![t] = [@ EXCEPT !.pc = "returned",
                                                    !.returned = TRUE]]
                /\ UNCHANGED svc_error_count
    /\ UNCHANGED <<svc_connected, svc_call, svc_steps>>
    /\ UNCHANGED nonsvcwovars

ApiNext ==
    \/ \E t \in RequestThreads, output \in OutputNames, value \in BOOLEAN,
          raises \in BOOLEAN : WriteOutputRead(t, output, value, raises)
    \/ \E t \in RequestThreads, raises \in BOOLEAN : WriteOutputWrite(t, raises)
    \/ SvcConnect

ApiInit == SvcInit

SpecApi == ApiInit /\ [][ApiNext]_vars

(***************************************************************************)
(* Properties of the replication engine and the network (SpecNet, LiveNet).*)
(***************************************************************************)
\* the scenario of continuous replication from A to B
ReplicatingCont ==
    /\ loaded
    /\ plcs = Nodes
    /\ running
    /\ InTable(M_cont)
    /\ mem["A"][1] = 42

C4_NoDriverConnectedAfterStop ==
    stopped => \A n \in plcs : ~is_connected[n]

\* work of a background task: a sync loop iterating, the auto-recovery loop
\* making its reconnect pass, a heartbeat loop probing and reconnecting
TaskWork ==
    \/ \E n \in Nodes : SyncResume(n)
    \/ \E n \in Nodes : SyncWake(n)
    \/ RecoveryWake
    \/ \E n \in Nodes : HeartbeatReconnect(n)

\* C5: after stop_network has returned, no background task of the network
\* takes a further step.
C5_NoTaskStepAfterStop ==
    [][stopped => ~TaskWork]_vars

\* C6: every mapping of the table has its source node and its target node
\* registered.
C6_MappingEndpointsRegistered ==
    \A i \in 1..Len(data_mappings) :
        /\ data_mappings[i].source_plc \in plcs
        /\ data_mappings[i].target_plc \in plcs

\* C7: adding a mapping and removing it again (by its source and target
\* node) gives back the table as it was, whatever the table held before.
C7_AddRemoveRoundTrip ==
    \A m \in Mappings :
        (m.source_plc \in plcs /\ m.target_plc \in plcs) =>
            RemoveDataMappingTable(
                AddDataMappingTable(data_mappings, plcs, m),
                m.source_plc, m.target_plc) = data_mappings

\* the sync task of node n is executing its loop
SyncLoopRuns(n) == sync_tasks[n] \in {"iter", "sleep"}

\* a mapping of A waits to be synchronized by A's running loop
Pending(m) ==
    /\ m.source_plc \in plcs
    /\ m.target_plc \in plcs
    /\ running
    /\ SyncLoopRuns("A")
    /\ InTable(m)
    /\ mem["A"][1] = 42

\* C8: while A's sync loop runs, a changed source value of an enabled
\* on_change mapping, and of an enabled periodic mapping, is eventually
\* written to the mapping's target.
C8_OnChangeAndPeriodicSynced ==
    /\ Pending(M_chg) ~> (mem["B"][2] = 42 \/ ~Pending(M_chg))
    /\ Pending(M_per) ~> (mem["A"][2] = 42 \/ ~Pending(M_per))

(***************************************************************************)
(* Properties of the connection supervisor (SpecConn).                     *)
(***************************************************************************)
\* the transitions drawn in the connection state diagram
Drawn ==
    { <<DISCONNECTED, CONNECTING>>, <<CONNECTING, CONNECTED>>,
      <<CONNECTING, ERROR>>, <<ERROR, RECONNECTING>>,
      <<RECONNECTING, CONNECTED>>, <<RECONNECTING, DISCONNECTED>>,
      <<CONNECTED, DISCONNECTED>>, <<CONNECTED, ERROR>> }

\* no reconnect thread exists or is inside connect()
NoReconnectThread == rc_sleep = 0 /\ rc_attempt = 0 /\ lock # "rc"

\* C1: every change of PLCConnection.state is one of the transitions drawn
\* in the state diagram (Disconnected->Connecting->Connected,
\* Connecting->Error, Error->Reconnecting, Reconnecting->Connected,
\* Reconnecting->Disconnected, Connected->Disconnected, Connected->Error);
\* no other transition occurs.
C1_OnlyDrawnTransitions ==
    [][state' # state => <<state, state'>> \in Drawn]_vars

\* C2: at most one transport operation (read_area / write_area) of one
\* SiemensPLC is in flight at any time.
C2_OneInFlight ==
    Cardinality({u \in Users : upc[u] = "area"}) <= 1

\* C9: with auto_reconnect and retry_attempts = 3, after a heartbeat failure
\* that is followed only by failing connect attempts, exactly 3 reconnect
\* attempts are made: never a fourth, and not fewer once the retrying has
\* come to rest.
C9_ExactlyThreeReconnects ==
    (auto_reconnect /\ hb_failed) =>
        /\ attempts <= retry_attempts
        /\ (NoReconnectThread /\ hb = "dead" /\ lock = "free")
               => attempts = retry_attempts

\* C10: with auto_reconnect = false a heartbeat failure leaves the state
\* ERROR until the caller calls connect() or disconnect(), and no reconnect
\* thread is ever created and no reconnect attempt is ever counted.
C10_NoReconnectWithoutAuto ==
    ~auto_reconnect =>
        /\ NoReconnectThread
        /\ reconnect_count = 0
        /\ attempts = 0
        /\ (hb_failed /\ ~explicit_since) => state = ERROR

\* C10 witness: a heartbeat has failed with auto_reconnect = false and the
\* heartbeat thread has ended, the driver being left in ERROR.
C10_Witness ==
    ~auto_reconnect /\ hb_failed /\ ~explicit_since /\ hb = "dead"
                    /\ state = ERROR

\* the retrying has come to rest: the retry budget is used up, no reconnect
\* thread is left and no caller is inside connect()
RetriesExhausted ==
    /\ reconnect_count >= retry_attempts
    /\ NoReconnectThread
    /\ lock = "free"

\* C11: once retry_attempts reconnect attempts have failed and the retrying
\* has stopped, the state is DISCONNECTED.
C11_ExhaustedIsDisconnected ==
    RetriesExhausted => state = DISCONNECTED

\* C12: whenever the connection is connected (and no connect() is under
\* way), its heartbeat thread is alive if and only if heartbeat_interval > 0.
C12_HeartbeatLiveIffInterval ==
    (state = CONNECTED /\ client_connected /\ lock = "free") =>
        ((hb # "dead") <=> (heartbeat_interval > 0))

\* C13: the heartbeat probe (client.read_area of the heartbeat thread) is
\* never in progress together with a caller's read_area / write_area.
C13_HeartbeatNotInterleaved ==
    ~(hb = "read" /\ \E u \in Users : upc[u] = "area")

(***************************************************************************)
(* Properties of one asyncio protocol driver (SpecDrv).                    *)
(***************************************************************************)
\* the heartbeat tasks that are alive
LiveHeartbeats == {h \in HbTasks : pc[h] \notin {"none", "done"}}

\* task t leaves the body of method o in this step
Leaves(t, o) == pc[t] = "cs" /\ op[t] = o /\ pc'[t] # "cs"

\* C14: connect() on a driver that is already connected returns success and
\* changes nothing (the client, the connected flag and the heartbeat tasks
\* stay as they are, no second heartbeat is created); disconnect() on a
\* driver that is already disconnected returns success and changes nothing.
C14_SessionCallsIdempotent ==
    [][\A t \in Callers :
          /\ (Leaves(t, "connect") /\ client_up) =>
                /\ result'[t] = "True"
                /\ UNCHANGED <<client_up, status_connected, heartbeat_task>>
                /\ \A h \in HbTasks : pc'[h] = pc[h]
          /\ (Leaves(t, "disconnect") /\ ~client_up /\ ~status_connected) =>
                /\ result'[t] = "True"
                /\ pc'[t] = "idle"
                /\ UNCHANGED <<client_up, status_connected>>
                /\ LiveHeartbeats' = LiveHeartbeats]_vars

\* connect() has been called on a connected driver with its heartbeat
\* task alive, and is inside the gate
C14_Witness ==
    \E t \in Callers :
       /\ pc[t] = "cs" /\ op[t] = "connect"
       /\ client_up /\ status_connected
       /\ heartbeat_task \in LiveHeartbeats

\* C15: operations pass the gate of a driver in the order in which they
\* asked for it: a task gets the gate either as the longest waiting one, or
\* without waiting when nobody waits.
C15_GateFifo ==
    [][\A t \in Tasks :
          (pc[t] # "cs" /\ pc'[t] = "cs") =>
              IF pc[t] = "wait"
              THEN requests # <<>> /\ Head(requests) = t
              ELSE requests = <<>>]_vars

\* two operations wait for the gate and the one that asked first has been
\* woken up
C15_Witness ==
    /\ Len(gate_waiters) >= 2
    /\ gate_waiters[1].done
    /\ ~gate_waiters[2].done
    /\ requests = <<gate_waiters[1].task, gate_waiters[2].task>>

\* a read, write or ping request completes in this step
TransferCompletes ==
    \E t \in Tasks : \E o \in {"read", "write", "ping"} : Leaves(t, o)

\* C19: success_count and error_count never decrease except by
\* reset_statistics, which zeroes both; a completed read or write request
\* raises exactly one of them by exactly one, and nothing else changes them.
C19_StatisticsCount ==
    [][IF TransferCompletes
       THEN \/ /\ success_count' = success_count + 1
               /\ error_count' = error_count
            \/ /\ success_count' = success_count
               /\ error_count' = error_count + 1
       ELSE \/ UNCHANGED <<success_count, error_count>>
            \/ ResetStatistics]_vars

\* requests have succeeded and failed, and both counters have moved
C19_Witness == success_count >= 1 /\ error_count >= 1

(***************************************************************************)
(* Properties of sync_data_once (SpecSync).                                *)
(***************************************************************************)
\* the call of sync_data_once under way ends in this step because
\* read_data raised
ReadFailsNow == sy_pc = "reading" /\ sy_pc' = "idle" /\ caught' = "read error"

Written == SelectSeq(wire, LAMBDA w : w.ok)

\* C17: with on_data_sync registered, the callback has fired exactly once
\* for every write the target carried out and for no other, and the value of
\* each call is the value that the target then holds (read as the target's
\* data type).
C17_DataSyncTellsWrittenValue ==
    on_data_sync =>
       /\ Len(data_calls) = Len(Written)
       /\ \A i \in 1..Len(data_calls) :
             /\ i <= Len(Written)
             /\ data_calls[i].value = DecodeAs(Written[i].register, target_data_type)

\* C18: a value outside the range of target_data_type is never handed to
\* the target's transport; the call ends with an error reported instead.
C18_NoWriteOutOfRange ==
    /\ \A i \in 1..Len(wire) : Fits(wire[i].value, target_data_type)
    /\ (sy_pc = "idle" /\ source_data # <<>>
          /\ ~Fits(source_data[1], target_data_type))
       => (sync_result = "False" /\ caught # "none")

(***************************************************************************)
(* Properties of write_data of S7 and Profibus (SpecWrite).                *)
(***************************************************************************)
\* C20: a write request whose data type names a read-only area (process
\* inputs; the system areas have no data type) is rejected before any call
\* on the transport: no write call is made for it and write_data raises.
C20_ReadOnlyWriteRejected ==
    ReadOnlyArea(GetAreaFromDataType(wr_data_type)) =>
       /\ transport_writes = <<>>
       /\ wr_pc = "done" => wr_result = "raised"

(***************************************************************************)
(* Properties of the Modbus driver's requests (SpecModbus).                *)
(***************************************************************************)
\* the last call was a write_data of a single value / of a list
ScalarWrite == mb_request.op = "write" /\ mb_request.value.kind # "list"
ListWrite == mb_request.op = "write" /\ mb_request.value.kind = "list"

\* the function codes that write
WriteFunctionCodes == {5, 6, 15, 16}

\* C21: a write_data request with data type discrete_input or
\* input_register is rejected: the call raises and no frame with a write
\* function code (5, 6, 15, 16) is sent.
C21_ReadOnlyTypesNotWritten ==
    (mb_request.op = "write"
        /\ mb_request.data_type \in {"discrete_input", "input_register"})
    => /\ mb_result.raised
       /\ \A i \in 1..Len(mb_frames) : mb_frames[i].fc \notin WriteFunctionCodes

\* the 32 bits that stand for a value under a 32-bit data type (float32
\* for the values whose bit pattern the model knows)
Bits32(value, data_type) ==
    IF data_type = "float32" THEN WideOf(Float32Bits(value))
    ELSE WideOf(IntOf(value))

\* C22: a write of a single uint32, int32 or float32 value sends one frame
\* that writes two consecutive registers from the request address, the high
\* word first; for float32 1.5 the registers are 0x3FC0 and 0x0000.
C22_Scalar32WritesTwoRegisters ==
    (ScalarWrite
        /\ mb_request.data_type \in {"uint32", "int32", "float32"}
        /\ mb_request.value \in {PyInt(0), PyInt(1), PyFloat(F32_1_5)})
    => /\ Len(mb_frames) = 1
       /\ mb_frames[1].fc = 16
       /\ mb_frames[1].address = mb_request.address
       /\ mb_frames[1].values = Words32(Bits32(mb_request.value,
                                               mb_request.data_type))
       /\ (mb_request.data_type = "float32"
              /\ mb_request.value = PyFloat(F32_1_5))
          => mb_frames[1].values = <<16320, 0>>

\* C23: a read of count values of type uint32, int32 or float32 asks for
\* 2 * count holding registers with function code 3 and, answered, returns
\* exactly count values.
C23_Read32AsksTwicePerValue ==
    (mb_request.op = "read"
        /\ mb_request.data_type \in {"uint32", "int32", "float32"})
    => /\ Len(mb_frames) = 1
       /\ mb_frames[1].fc = 3
       /\ mb_frames[1].count = 2 * mb_request.count
       /\ ~mb_result.raised => Len(mb_result.data) = mb_request.count

\* the value range of a 32-bit integer type
InRange32(w, data_type) ==
    /\ w.lo \in 0..65535
    /\ IF data_type = "uint32" THEN w.hi \in 0..65535
       ELSE w.hi \in -32768..32767

\* C24: for a uint32 or int32 value v in the range of its type,
\* _convert_data_to_registers([v]) gives exactly two registers in 0..65535
\* with the high 16 bits in the first, and _convert_registers_to_data of
\* them for the same type gives [v].
C24_RoundTrip32 ==
    (ListWrite
        /\ mb_request.data_type \in {"uint32", "int32"}
        /\ InRange32(mb_request.value.n[1], mb_request.data_type))
    => /\ ~(mb_frames = <<>>)
       /\ LET regs == mb_frames[1].values
              v    == mb_request.value.n[1]
          IN  /\ Len(regs) = 2
              /\ \A i \in 1..2 : regs[i] \in 0..65535
              /\ regs[1] = v.hi % 65536
              /\ ConvertRegistersToData(regs, mb_request.data_type) = <<v>>

\* a negative int32 with a high word of its own has been packed
C24_Witness ==
    /\ ListWrite
    /\ mb_request.data_type = "int32"
    /\ mb_request.value.n[1] = Wide(-2, 61072)
    /\ mb_frames # <<>>
    /\ mb_frames[1].values = <<65534, 61072>>

\* C25: a write of a single integer as uint16 or int16 is accepted when the
\* value is in the range of the type, and the register then reads back as
\* the value (65535 as uint16, -32768 as int16); a value outside the range
\* (65536 as uint16) raises and no frame is sent.
C25_OutOfRangeRejected ==
    (ScalarWrite
        /\ mb_request.value.kind = "int"
        /\ mb_request.data_type \in {"uint16", "int16"})
    => IF Fits(mb_request.value.n, mb_request.data_type)
       THEN /\ ~mb_result.raised
            /\ ConvertRegistersToData(<<holding[mb_request.address]>>,
                                      mb_request.data_type)
                  = <<mb_request.value.n>>
       ELSE /\ mb_result.raised
            /\ mb_frames = <<>>

(***************************************************************************)
(* Properties of the Ethernet/IP session (SpecEip).                        *)
(***************************************************************************)
\* the command of a frame (bytes 0..2, low byte first) and its session
\* handle (bytes 4..8)
CommandOf(frame) == frame.bytes[1] + 256 * frame.bytes[2]
HandleOf(frame) == SubSeq(frame.bytes, 5, 8)

\* SendRRData, the command of the read and write frames
IsTransfer(frame) == CommandOf(frame) = 112

\* C26: the first frame a client sends is RegisterSession (command 0x0065)
\* with session handle 0; self._session_id is what bytes 4..8 of the reply
\* hold; every read or write frame carries exactly those four bytes, and
\* none is sent while no session is registered.
C26_SessionHandleCarried ==
    /\ \A i \in 1..Len(eip_wire) :
          LET frame == eip_wire[i]
          IN  /\ (frame.first \/ i = 1)
                    => /\ CommandOf(frame) = 101
                       /\ HandleOf(frame) = <<0, 0, 0, 0>>
              /\ IsTransfer(frame)
                    => /\ frame.granted # <<>>
                       /\ HandleOf(frame) = frame.granted
    /\ eip_session # <<>>
          => /\ eip_reply # <<>>
             /\ eip_session[1] = Unpack32BE(eip_reply)

\* a session was registered with handle 01 02 03 04 and a read or write
\* frame was sent in it
C26_Witness ==
    /\ Len(eip_wire) >= 2
    /\ eip_wire[1].bytes = RegisterCmd
    /\ \E i \in 2..Len(eip_wire) :
          /\ IsTransfer(eip_wire[i])
          /\ eip_wire[i].granted = <<1, 2, 3, 4>>
          /\ HandleOf(eip_wire[i]) = <<1, 2, 3, 4>>

(***************************************************************************)
(* Properties of the VFD monitor and of set_frequency (SpecVfd), and of    *)
(* _decode_status (SpecDecode).                                            *)
(***************************************************************************)
\* the last pass of the monitoring loop read the status register
StatusRead == vfd_iteration.ran /\ vfd_iteration.read

\* C27: a pass of the monitoring loop that reads the status register calls
\* on_status_change(new, old) once when the status changed and then
\* on_fault(code) once when the drive's fault code is not 0, and nothing
\* else; from Running to the word 0x8000 with fault code 17 that is
\* on_status_change(Fault, Running), then on_fault(17).
C27_StatusChangeThenFault ==
    StatusRead
    => /\ vfd_events =
             (IF vfd_status # vfd_iteration.old_status
              THEN <<StatusChange(vfd_status, vfd_iteration.old_status)>>
              ELSE <<>>)
             \o (IF vfd_iteration.device_fault # 0
                 THEN <<Fault(vfd_iteration.device_fault)>> ELSE <<>>)
       /\ (vfd_iteration.old_status = "running"
              /\ vfd_iteration.word = 32768
              /\ vfd_iteration.device_fault = 17)
          => vfd_events = <<StatusChange("fault", "running"), Fault(17)>>

\* C28: set_frequency(hz) with hz < 0 or hz > max_frequency returns False,
\* writes nothing and leaves frequency_setpoint as it was; with hz in
\* 0..max_frequency it writes hz to the frequency_setpoint register, and
\* frequency_setpoint becomes hz only when the write succeeded.
C28_SetFrequencyValidated ==
    vfd_call.op = "set_frequency"
    => IF vfd_call.frequency < 0 \/ vfd_call.frequency > max_frequency
       THEN /\ ~vfd_call.returned
            /\ vfd_call.writes = <<>>
            /\ vfd_setpoint = vfd_call.before
       ELSE /\ Len(vfd_call.writes) = 1
            /\ vfd_call.writes[1].address = FrequencySetpointRegister
            /\ vfd_call.writes[1].value = vfd_call.frequency
            /\ vfd_call.returned = vfd_call.success
            /\ vfd_setpoint = IF vfd_call.success THEN vfd_call.frequency
                                                 ELSE vfd_call.before

\* 61 Hz was asked for at a setpoint of 30 Hz, which stays
C28_Witness ==
    /\ vfd_call.op = "set_frequency"
    /\ vfd_call.frequency = 61
    /\ vfd_call.before = 30
    /\ vfd_setpoint = 30

\* the states with a bit of their own, the highest priority first
Priority == <<[status |-> "fault", mask |-> 32768],
              [status |-> "warning", mask |-> 16384],
              [status |-> "running", mask |-> 1],
              [status |-> "accelerating", mask |-> 2],
              [status |-> "decelerating", mask |-> 4],
              [status |-> "ready", mask |-> 8]>>

\* C29: for every 16-bit status word _decode_status gives the first state
\* in the order Fault (bit 15), Warning (bit 14), Running (bit 0),
\* Accelerating (bit 1), Decelerating (bit 2), Ready (bit 3) whose bit is
\* set in the word, and Stopped when none of the six bits is set.
C29_DecodePriority ==
    StatusRead
    => LET set == {i \in 1..6 : HasBit(vfd_iteration.word, Priority[i].mask)}
       IN  vfd_status = IF set = {} THEN "stopped"
                        ELSE Priority[CHOOSE i \in set :
                                         \A j \in set : i <= j].status

\* a word with the warning bit and the running bit was decoded
C29_Witness ==
    /\ StatusRead
    /\ vfd_iteration.word = 16385
    /\ vfd_status = "warning"

(***************************************************************************)
(* Properties of PLCService.write_output (SpecService).                    *)
(***************************************************************************)
\* the last call was write_output of an address "Q<byte>.<bit>" of the PLC
\* on a connected service whose transport works
WroteQ ==
    /\ svc_call.op = "write_output"
    /\ svc_call.connected
    /\ svc_call.transport = "ok"
    /\ Len(svc_call.output) = 4
    /\ svc_call.output[1] = "Q"
    /\ ParseInt(<<svc_call.output[2]>>) \in OutputBytes
    /\ ParseInt(<<svc_call.output[4]>>) \in 0..7

\* C30: write_output("Q<byte>.<bit>", v) succeeds, sets that bit of that PA
\* byte to v and leaves the other seven bits of the byte as they were;
\* from PA byte 0 = 0x00, write_output("Q0.3", true) makes the byte 0x08.
C30_WriteOutputSetsOneBit ==
    WroteQ
    => LET byte_num == ParseInt(<<svc_call.output[2]>>)
           bit_num == ParseInt(<<svc_call.output[4]>>)
       IN  /\ svc_call.returned
           /\ \A i \in 0..7 :
                 HasBit(svc_pa[byte_num], Shl(i))
                    = IF i = bit_num THEN svc_call.value
                      ELSE HasBit(svc_call.before[byte_num], Shl(i))
           /\ (svc_call.output = <<"Q", "0", ".", "3">> /\ svc_call.value
                  /\ svc_call.before[0] = 0)
              => svc_pa[0] = 8

(***************************************************************************)
(* Properties of the address resolvers (SpecAddr).                         *)
(***************************************************************************)
\* an address of the form I/Q/M byte.bit or DBn.DBXbyte.bit whose bit
\* position is above 7
BitAbove7(address) ==
    LET f == Fields(address)
    IN  /\ \/ /\ Len(f) = 2
              /\ \E l \in {"I", "Q", "M"} : PrefixDigits(f[1], <<l>>)
           \/ /\ Len(f) = 3
              /\ PrefixDigits(f[1], <<"D", "B">>)
              /\ PrefixDigits(f[2], <<"D", "B", "X">>)
        /\ Digits(f[Len(f)])
        /\ ParseInt(f[Len(f)]) > 7

\* C31: an address that parse_address resolves as a bit address has a bit
\* position in 0..7 and a size of 1, and an address with a bit position
\* above 7 (I0.9) is rejected by parse_address and by both
\* validate_address functions.
C31_BitPositionInByte ==
    addr_call.fn # "none"
    => /\ (addr_call.accepted /\ addr_call.type = "bit")
             => addr_call.bit \in 0..7 /\ addr_call.size = 1
       /\ BitAbove7(addr_call.address) => ~addr_call.accepted

(***************************************************************************)
(* Properties of the observed sync loop (SpecIter).                        *)
(***************************************************************************)
\* C32: within one pass of a node's sync loop, of two mappings that stayed
\* in the table for the whole pass the one add_data_mapping inserted first
\* is handed to sync_data_once first (each sync_data_once is awaited to its
\* end before the loop goes on)
C32_InsertionOrder ==
    \A n \in Nodes :
        \A a, b \in 1..Len(iter_synced[n]) :
            LET m1 == iter_synced[n][a]
                m2 == iter_synced[n][b]
            IN  (/\ m1 # m2
                 /\ {m1, m2} \subseteq iter_kept[n]
                 /\ IndexOf(inserted, m1) < IndexOf(inserted, m2))
                => a < b

\* a pass that synchronized two mappings which stayed in the table
C32_Witness ==
    \E n \in Nodes :
        /\ Len(iter_synced[n]) = 2
        /\ iter_synced[n][1] # iter_synced[n][2]
        /\ {iter_synced[n][1], iter_synced[n][2]} \subseteq iter_kept[n]
        /\ IndexOf(inserted, iter_synced[n][1])
             < IndexOf(inserted, iter_synced[n][2])

\* C40: when a pass of a node's sync loop has ended, every enabled
\* continuous mapping sourced at the node that stayed in the table for the
\* whole pass was handed to sync_data_once exactly once in it, whatever
\* add_data_mapping and remove_data_mapping did to other mappings while the
\* loop was suspended
C40_KeptMappingSyncedOnce ==
    \A n \in Nodes :
        sync_tasks[n] = "sleep"
        => \A m \in iter_kept[n] :
               SyncSelects(m, n) => Copies(iter_synced[n], m) = 1

(***************************************************************************)
(* Properties of read_data of S7 (SpecS7Read).                             *)
(***************************************************************************)
\* width in bytes of one element of a data type
ElementWidth(data_type) ==
    IF data_type \in {"bool", "uint8", "int8"} THEN 1
    ELSE IF data_type \in {"uint16", "int16"} THEN 2
    ELSE IF data_type \in {"uint32", "int32", "float32"} THEN 4
    ELSE 8

\* C33: a read of count elements on a connected S7 driver asks read_area
\* for count * width(data_type) bytes and returns exactly count decoded
\* values
C33_ReadLengthAndCount ==
    (s7_read.fn = "read_data" /\ s7_read.connected)
    => /\ s7_read.length_bytes = s7_read.count * ElementWidth(s7_read.data_type)
       /\ ~s7_read.raised
       /\ Len(s7_read.values) = s7_read.count

(***************************************************************************)
(* Further properties of the replication engine and the network (SpecNet). *)
(***************************************************************************)
\* C34: while the engine is running every registered node that is master
\* and enabled has a sync task that is scheduled or inside its loop, also
\* when the node was added before start_communication, and no entry of
\* sync_tasks is that of a task that has finished
C34_MasterHasLiveSyncTask ==
    /\ running =>
         \A n \in plcs :
             (NodeConfig[n].is_master /\ NodeConfig[n].enabled)
             => sync_tasks[n] \in {"created", "iter", "sleep"}
    /\ \A n \in Nodes : sync_tasks[n] # "done"

\* C39: at most one _auto_recovery_loop task of the network is inside its
\* loop, whatever sequence of start_network and stop_network was called
C39_OneRecoveryLoop == rec_sleep <= 1

(***************************************************************************)
(* Further properties of one asyncio driver (SpecDrv).                     *)
(***************************************************************************)
\* C35: at most one heartbeat loop of the driver is alive, whatever
\* connect(), disconnect() and the reconnects of the heartbeat task did
C35_OneHeartbeatLoop == Cardinality(LiveHeartbeats) <= 1

(***************************************************************************)
(* Further properties of PLCConnection (SpecConn).                         *)
(***************************************************************************)
\* C36: once disconnect() has returned and until a caller calls connect()
\* again, the state is DISCONNECTED and no thread is inside connect(),
\* whatever a reconnect thread that was sleeping and a heartbeat read that
\* was under way do afterwards
C36_DisconnectIsFinal ==
    disc_returned => (state = DISCONNECTED /\ lock # "rc")

\* C37: reconnect_count never exceeds retry_attempts; a step changes it by
\* adding one (a reconnect attempt) or by setting it to 0 (a successful
\* connect)
C37_ReconnectCountBounded ==
    [][/\ reconnect_count' <= retry_attempts
       /\ reconnect_count' # reconnect_count
            => reconnect_count' \in {reconnect_count + 1, 0}]_vars

(***************************************************************************)
(* Properties of concurrent write_output calls (SpecApi).                  *)
(***************************************************************************)
\* thread t has returned True from write_output
ReturnedTrue(t) == wo_thread[t].pc = "returned" /\ wo_thread[t].returned

\* the bit of area PA that the call of thread t names has the value the
\* call was given
BitAsWritten(t) ==
    LET parsed == ParseOutput(wo_thread[t].output)
    IN  HasBit(svc_pa[parsed.byte_num], Shl(parsed.bit_num))
            = wo_thread[t].value

\* C38: when two request threads have both returned True from write_output
\* calls on different bits of the same byte of area PA, the byte holds both
\* bit values that were written
C38_BothBitsWritten ==
    \A t1, t2 \in RequestThreads :
        (/\ t1 # t2
         /\ ReturnedTrue(t1) /\ ReturnedTrue(t2)
         /\ ParseOutput(wo_thread[t1].output).byte_num
              = ParseOutput(wo_thread[t2].output).byte_num
         /\ ParseOutput(wo_thread[t1].output).bit_num
              # ParseOutput(wo_thread[t2].output).bit_num)
        => BitAsWritten(t1) /\ BitAsWritten(t2)
====
